---------------------------- MODULE Spec2Model ----------------------------
(* The tool-augmented conversation orchestrator of champly/ai-agent:       *)
(* Agent.Start, Agent.Chat / Agent.ChatWithRAG with the turn loop          *)
(* (conversationLoop), the conversation store (sync.Map of *Conversation)  *)
(* and the tool registry.  Every chat request is a goroutine; its steps    *)
(* are split at the accesses to shared state and at the blocking calls     *)
(* (model call, remote tool call).                                         *)
EXTENDS Integers, Sequences, FiniteSets, TLC

VARIABLES
  phase,          \* life cycle of the process: "new", "running", "exited", "stopped"
  clients,        \* MCPClient.clients: server name -> MCPClientInfo
  tools,          \* ToolRegistry.tools: tool name -> ToolInfo
  conversations,  \* Agent.conversations (sync.Map): id -> reference into heap
  heap,           \* the Conversation objects ever allocated, by reference
  nGen,           \* number of ids generateConversationID has handed out
  chat,           \* the chat goroutines: request -> its locals and position
  configs,        \* MCPClient.configs (cfg.MCPServers): the configured sources
  mu,             \* ToolRegistry.mu (sync.RWMutex)
  clientMu,       \* MCPClient.mu (sync.RWMutex)
  procs,          \* goroutines that call a component directly: name -> call
  registered,     \* the ToolInfos Register has written, in order (ghost)
  launched,       \* the sources MCPClient.Start launched -> whether connect and list succeeded (ghost)
  stop,           \* Agent.Stop / MCPClient.Stop: position, and what it did (ghost)
  rag,            \* Agent.rag (rag.RAG): documents, chunkSize, chunkOverlap, mu
  processes       \* the session and subprocess startClient made for each configured source

\* the state of the components when callers other than Chat use them
libVars == <<configs, mu, clientMu, procs, registered, launched, stop, rag, processes>>

vars == <<phase, clients, tools, conversations, heap, nGen, chat, libVars>>

-----------------------------------------------------------------------------
(* Bounds of the model *)

\* tool calls the model may ask for in one request, over all its replies, before
\* it either answers with a final text or keeps repeating its last reply
MaxToolCalls == 2
\* the same, for the requests that run concurrently
MaxConcurrentToolCalls == 1

\* the chat requests (goroutines of the HTTP server) of a run
Requests == {"r1", "r2", "r3"}
\* the requests that run concurrently with tool calls
Concurrent == {"r1", "r2"}
\* conversation ids a client may send; "" asks for a generated one
RequestIDs == {"", "c1"}
\* what rag.GetContext renders; "" stands for a failure or no result
RagContexts == {"", "ctx"}
\* ids uuid.New() hands out, in order; never equal to a client's id
UUIDs == <<"uuid-1", "uuid-2", "uuid-3", "uuid-4">>

-----------------------------------------------------------------------------
(* Program constants *)

maxIterations == 100

-----------------------------------------------------------------------------
(* Environment: configured capability sources and what they answer *)

MCPServers ==
  << [Name |-> "fs",  Enabled |-> TRUE,  Tools |-> <<"list_directory", "read_file">>],
     [Name |-> "off", Enabled |-> FALSE, Tools |-> <<"write_file">>] >>

\* the tool calls the model asks for: the k-th call of a request is the k-th of
\* these, cyclically
ModelToolCalls ==
  << [Name |-> "read_file",      Arguments |-> "missing"],
     [Name |-> "list_directory", Arguments |-> "."],
     [Name |-> "read_file",      Arguments |-> "img"] >>

\* the batch of n tool calls the model asks for after `asked` earlier calls
Batch(asked, n) ==
  [j \in 1..n |-> ModelToolCalls[((asked + j - 1) % Len(ModelToolCalls)) + 1]]

\* the response of a server's session to CallTool: a protocol error, or content items
SessionCallTool(serverName, toolName, args) ==
  IF toolName = "list_directory"
  THEN [err |-> "", Content |-> << [type |-> "text", Text |-> "a.md"] >>]
  ELSE IF toolName = "git_log"
  THEN [err |-> "", Content |-> << [type |-> "text", Text |-> "commit 1"],
                                   [type |-> "text", Text |-> "commit 2"] >>]
  ELSE IF args = "missing"
  THEN [err |-> "file not found", Content |-> << >>]
  ELSE IF args = "empty"
  THEN [err |-> "", Content |-> << >>]
  ELSE IF args = "png"
  THEN [err |-> "", Content |-> << [type |-> "image", Text |-> ""] >>]
  ELSE [err |-> "", Content |-> << [type |-> "image", Text |-> ""],
                                   [type |-> "text",  Text |-> "body"] >>]

\* stands for the separator "\n<user question>: " ChatWithRAG puts after the context
RagSeparator == " | question: "

\* cfg.Ollama.Model, the model the client was created with
DefaultModel == "qwen3:8b"

\* cfg.Ollama.SystemPrompt as config.Load sets it ("system-prompt" stands for the text)
SystemPrompt == "system-prompt"

\* the text of the model's n-th reply of a request
ReplyContent(n) == "reply-" \o ToString(n)


-----------------------------------------------------------------------------
(* Helpers *)

Range(s) == { s[i] : i \in 1..Len(s) }

IsPrefix(s, t) == Len(s) <= Len(t) /\ SubSeq(t, 1, Len(s)) = s

NoFn == [x \in {} |-> x]

Put(f, k, v) == [x \in DOMAIN f \cup {k} |-> IF x = k THEN v ELSE f[x]]

\* values of Go's `any` as a decoded JSON schema holds them: nil, a string, a
\* number, a []any or a map[string]any
NilV == [kind |-> "nil"]

StrV(x) == [kind |-> "string", v |-> x]

NumV(n) == [kind |-> "number", v |-> n]

ListV(q) == [kind |-> "list", v |-> q]

MapV(f) == [kind |-> "map", v |-> f]

\* m[key] of a map[string]any: nil when the key is absent
Field(m, key) == IF key \in DOMAIN m.v THEN m.v[key] ELSE NilV

-----------------------------------------------------------------------------
(* Tool registry (tool_registry.go) *)

\* mutant of Register: a name that is taken keeps its entry
RegisterKeepsFirst(reg, tool) == IF tool.Name \in DOMAIN reg THEN reg ELSE Put(reg, tool.Name, tool)

\* ToolRegistry.Register: r.tools[tool.Name] = tool
Register(reg, tool) == Put(reg, tool.Name, tool)

RECURSIVE RegisterAll(_, _)
\* Agent.Start: for _, tool := range externalTools { Register(tool) }
RegisterAll(reg, ts) ==
  IF ts = << >> THEN reg ELSE RegisterAll(Register(reg, Head(ts)), Tail(ts))

\* the nil *ToolInfo
Nil == [Name |-> "nil"]

\* ToolRegistry.Get: nil for an unknown name
Get(reg, name) == IF name \in DOMAIN reg THEN reg[name] ELSE Nil

\* ToolRegistry.List: all entries, in no particular order
List(reg) == { reg[n] : n \in DOMAIN reg }

\* ToolRegistry.Count
Count(reg) == Cardinality(DOMAIN reg)

\* the ToolInfo GetAllTools builds for one tool of one client
ToolInfoOf(client, tool) ==
  [ Name     |-> tool,
    Source   |-> "mcp:" \o client.Name,
    MCPTool  |-> [Name |-> tool, Description |-> "tool " \o tool,
                  InputSchema |-> MapV([k \in {"type"} |-> StrV("object")])],
    Executor |-> [serverName |-> client.Name, toolName |-> tool] ]

RECURSIVE GetAllTools(_, _)
\* MCPClient.GetAllTools: the clients in the map's iteration order `order`
GetAllTools(cl, order) ==
  IF order = << >> THEN << >>
  ELSE [i \in 1..Len(cl[Head(order)].Tools) |->
            ToolInfoOf(cl[Head(order)], cl[Head(order)].Tools[i])]
       \o GetAllTools(cl, Tail(order))

\* the MCPClientInfo startClient stores for the source at position n of the
\* configuration (Pid names its session and subprocess)
ClientInfo(cfg, n) ==
  [Name |-> cfg.Name, Session |-> "open", Cmd |-> "running", Tools |-> cfg.Tools, Pid |-> n]

RECURSIVE StartClientsAborts(_, _, _)
\* mutant of StartClients: the first source that fails ends the startup
StartClientsAborts(cl, cfgs, ok) ==
  IF cfgs = << >> THEN cl
  ELSE LET n      == Len(cfgs)
           before == StartClientsAborts(cl, SubSeq(cfgs, 1, n - 1), ok) IN
       IF /\ cfgs[n].Enabled
          /\ \A i \in 1..n : cfgs[i].Enabled => i \in ok
       THEN Put(before, cfgs[n].Name, ClientInfo(cfgs[n], n))
       ELSE before

RECURSIVE StartClients(_, _, _)
\* MCPClient.Start: each enabled source whose connect and list succeed (its
\* position is in ok) is stored under its name, in the order of the configuration
StartClients(cl, cfgs, ok) ==
  IF cfgs = << >> THEN cl
  ELSE LET n      == Len(cfgs)
           before == StartClients(cl, SubSeq(cfgs, 1, n - 1), ok) IN
       IF cfgs[n].Enabled /\ n \in ok
       THEN Put(before, cfgs[n].Name, ClientInfo(cfgs[n], n))
       ELSE before

\* startClient: the session and the subprocess of each source after Start. A
\* source that is disabled, or whose connect or list failed, has none (what
\* the SDK does with the command of a failed connect is not in this code)
StartProcesses(cfgs, ok) ==
  [n \in DOMAIN cfgs |->
     IF cfgs[n].Enabled /\ n \in ok
     THEN [Name |-> cfgs[n].Name, Session |-> "open", Cmd |-> "running"]
     ELSE [Name |-> cfgs[n].Name, Session |-> "none", Cmd |-> "none"]]

\* the orders in which a Go map with the keys S may be iterated
Orders(S) ==
  { o \in [1..Cardinality(S) -> S] : \A i, j \in DOMAIN o : i # j => o[i] # o[j] }

\* the strings of schema["required"], in order, when that is a []any
Required(schema) ==
  LET req == Field(schema, "required") IN
  IF req.kind # "list" THEN << >>
  ELSE LET strs == SelectSeq(req.v, LAMBDA x : x.kind = "string") IN
       [i \in 1..Len(strs) |-> strs[i].v]

\* mutant of ToolProperty: a property without a type is given the type "string"
ToolPropertyDefaultsType(propMap) ==
  LET t == Field(propMap, "type")
      d == Field(propMap, "description")
      e == Field(propMap, "enum") IN
  [ Type        |-> IF t.kind = "string" THEN <<t.v>> ELSE <<"string">>,
    Description |-> IF d.kind = "string" THEN d.v ELSE "",
    Enum        |-> IF e.kind = "list" THEN e.v ELSE << >> ]

\* the api.ToolProperty of one property: type, description and enum are taken
\* when they have the expected type, and keep their zero value otherwise
ToolProperty(propMap) ==
  LET t == Field(propMap, "type")
      d == Field(propMap, "description")
      e == Field(propMap, "enum") IN
  [ Type        |-> IF t.kind = "string" THEN <<t.v>> ELSE << >>,
    Description |-> IF d.kind = "string" THEN d.v ELSE "",
    Enum        |-> IF e.kind = "list" THEN e.v ELSE << >> ]

\* Parameters.Properties: nil (made = FALSE) unless schema["properties"] is a
\* map; then one entry for each property whose value is a map
Properties(schema) ==
  LET props == Field(schema, "properties") IN
  IF props.kind # "map" THEN [made |-> FALSE, props |-> NoFn]
  ELSE [ made  |-> TRUE,
         props |-> [n \in { k \in DOMAIN props.v : props.v[k].kind = "map" }
                      |-> ToolProperty(props.v[n])] ]

\* mutant of Parameters: the type is set only for an object schema
ParametersUntyped(inputSchema) ==
  IF inputSchema.kind = "map"
  THEN [Type |-> "object", Required |-> Required(inputSchema),
        Properties |-> Properties(inputSchema)]
  ELSE [Type |-> "", Required |-> << >>, Properties |-> [made |-> FALSE, props |-> NoFn]]

\* tool.Function.Parameters: type "object", and required / properties of a
\* schema that is a map
Parameters(inputSchema) ==
  IF inputSchema.kind = "map"
  THEN [Type |-> "object", Required |-> Required(inputSchema),
        Properties |-> Properties(inputSchema)]
  ELSE [Type |-> "object", Required |-> << >>, Properties |-> [made |-> FALSE, props |-> NoFn]]

\* MCPToolToOllamaTool: the descriptor the model is sent for a tool
MCPToolToOllamaTool(mcpTool) ==
  [ Type |-> "function", Name |-> mcpTool.Name, Description |-> mcpTool.Description,
    Parameters |-> Parameters(mcpTool.InputSchema) ]

\* Agent.getAllOllamaTools: one descriptor per entry of the registry
getAllOllamaTools(reg) == { MCPToolToOllamaTool(t.MCPTool) : t \in List(reg) }

-----------------------------------------------------------------------------
(* Tool execution *)

\* MCPClient.CallTool
CallTool(cl, serverName, toolName, args) ==
  IF serverName \notin DOMAIN cl
  THEN [err |-> "MCP server not found: " \o serverName, Content |-> << >>]
  ELSE LET res == IF cl[serverName].Session = "closed"
                  THEN [err |-> "connection closed", Content |-> << >>]
                  ELSE SessionCallTool(serverName, toolName, args) IN
       IF res.err # ""
       THEN [err |-> "call tool failed: " \o res.err, Content |-> << >>]
       ELSE res

\* MCPToolExecutor.Execute: the text of the first content item, if it is text
Execute(cl, e, args) ==
  LET result == CallTool(cl, e.serverName, e.toolName, args) IN
  IF result.err # "" THEN [result |-> "", err |-> result.err]
  ELSE IF Len(result.Content) > 0 /\ result.Content[1].type = "text"
  THEN [result |-> result.Content[1].Text, err |-> ""]
  ELSE [result |-> "", err |-> "no content in result"]

\* Agent.executeToolCall: look the tool up, then run its executor
executeToolCall(reg, cl, tc) ==
  LET tool == Get(reg, tc.Name) IN
  IF tool = Nil
  THEN [result |-> "", err |-> "tool not found: " \o tc.Name]
  ELSE Execute(cl, tool.Executor, tc.Arguments)

\* conversationLoop: the string recorded for a tool call
ToolResult(reg, cl, tc) ==
  LET r == executeToolCall(reg, cl, tc) IN
  IF r.err # "" THEN "Error: " \o r.err ELSE r.result

-----------------------------------------------------------------------------
(* Conversations (Conversation.AddMessage / GetMessages) *)

\* api.Message; tag = <<request, round, index>> records who appended it (ghost)
Message(role, content, toolCalls, tag) ==
  [Role |-> role, Content |-> content, ToolCalls |-> toolCalls, tag |-> tag]

\* mutant of AddMessage: the history is cut to a window of the last three messages
AddMessageWindowed(h, c, msg) ==
  [h EXCEPT ![c].messages =
     IF Len(@) >= 3 THEN SubSeq(@, 2, Len(@)) \o <<msg>> ELSE Append(@, msg)]

\* Conversation.AddMessage on the object with reference c
AddMessage(h, c, msg) == [h EXCEPT ![c].messages = Append(@, msg)]

\* Conversation.GetMessages: a copy of the whole sequence
GetMessages(h, c) == h[c].messages

\* ollama.Client.Chat: the api.ChatRequest built from the messages and the tools
OllamaChat(messages, tls) ==
  [ Model    |-> DefaultModel,
    Messages |-> messages,
    Stream   |-> FALSE,
    Tools    |-> IF Cardinality(tls) > 0 THEN tls ELSE {} ]

\* the locals of a goroutine that serves no request yet; ctx is "" while the
\* request's context is live; `after` (the requests that had returned when this
\* one entered), `executed` (the tool calls run so far, as <<round, index>>) and
\* `cancelledAt` (position, round and call index at the cancellation) are ghosts,
\* as is `retrieved` (what rag.GetContext returned to ChatWithRAG)
NotRetrieved == [called |-> FALSE, context |-> "", err |-> ""]

Retrieved(out, followed) ==
  IF followed THEN [called |-> TRUE, context |-> out.context, err |-> out.err] ELSE NotRetrieved

Idle ==
  [ pc |-> "idle", req |-> [Message |-> "", ConversationID |-> "", Model |-> ""], after |-> {},
    ctx |-> "", cancelledAt |-> << >>, retrieved |-> NotRetrieved,
    id |-> "", userMessage |-> "", conv |-> 0, tools |-> {}, model |-> "",
    i |-> 0, toolCalls |-> << >>, sent |-> OllamaChat(<< >>, {}),
    resp |-> Message("", "", << >>, << >>), tc |-> 0, result |-> "", executed |-> << >>,
    out |-> [Response |-> "", ToolCalls |-> << >>, ConversationID |-> ""],
    err |-> "" ]

\* the goroutines that call a component directly
Callers == {"g1", "g2", "g3"}

\* a goroutine that is in no call
NoCall == [op |-> "", arg |-> "", pc |-> "idle", ret |-> ""]

\* a sync.RWMutex nobody holds or waits for: the writer inside, the readers
\* inside, and the writers that have called Lock and wait
Unlocked == [writer |-> "", readers |-> {}, pending |-> {}]

\* Stop has not been called
NotStopped == [pc |-> "idle", order |-> << >>, k |-> 0, log |-> << >>, ret |-> "-"]

-----------------------------------------------------------------------------
(* Retrieval engine (rag.RAG) *)

\* config.Load: chunk size and overlap when the configuration gives none
DefaultConfig == [ChunkSize |-> 500, ChunkOverlap |-> 50]

\* rag.New: no documents, the configured chunk size and overlap
RagNew(cfg) ==
  [ documents |-> << >>, chunkSize |-> cfg.ChunkSize, chunkOverlap |-> cfg.ChunkOverlap,
    mu |-> Unlocked ]

\* a text is the sequence of its characters ([]rune); the characters at which
\* splitText may end a chunk, and those strings.TrimSpace removes
Terminators == {".", "!", "?", "\n"}

Whitespace == {" ", "\n"}

Min(a, b) == IF a <= b THEN a ELSE b

\* strings.TrimSpace
TrimSpace(text) ==
  LET keep == { i \in 1..Len(text) : text[i] \notin Whitespace } IN
  IF keep = {} THEN << >>
  ELSE SubSeq(text, CHOOSE i \in keep : \A j \in keep : i <= j,
                    CHOOSE i \in keep : \A j \in keep : j <= i)

\* splitText, lines 306-313: the chunk size and overlap it works with
EffectiveChunkSize(chunkSize) == IF chunkSize <= 0 THEN 500 ELSE chunkSize

EffectiveOverlap(chunkSize, chunkOverlap) ==
  IF chunkOverlap >= EffectiveChunkSize(chunkSize)
  THEN EffectiveChunkSize(chunkSize) \div 10
  ELSE chunkOverlap

\* splitText, lines 323-343: where the chunk that begins at `start` ends
\* (offsets count from 0 as in the code; runes[i] of the code is runes[i + 1])
WindowEnd(runes, start, chunkSize) ==
  LET end         == Min(start + chunkSize, Len(runes))
      searchStart == start + (chunkSize * 4) \div 5
      found       == { i \in (searchStart + 1)..end : runes[i + 1] \in Terminators } IN
  IF end < Len(runes) /\ found # {}
  THEN (CHOOSE i \in found : \A j \in found : j <= i) + 1
  ELSE end

\* mutant of NextStart: from an odd offset the next chunk begins one earlier
NextStartSteppingBack(start, end, chunkSize, chunkOverlap) ==
  IF start % 2 = 1 THEN start - 1 ELSE start + 3

\* splitText, lines 352-364: where the next chunk begins
NextStart(start, end, chunkSize, chunkOverlap) ==
  LET minStep  == IF chunkSize - chunkOverlap < 1 THEN 1 ELSE chunkSize - chunkOverlap
      newStart == IF end - start > minStep THEN end - chunkOverlap ELSE start + minStep IN
  IF newStart <= start THEN start + 1 ELSE newStart

\* the windows [start, end) of the loop of splitText, in order
RECURSIVE Windows(_, _, _, _)
Windows(runes, start, chunkSize, chunkOverlap) ==
  IF start >= Len(runes) THEN << >>
  ELSE LET end == WindowEnd(runes, start, chunkSize) IN
       << [start |-> start, end |-> end] >>
       \o Windows(runes, NextStart(start, end, chunkSize, chunkOverlap), chunkSize, chunkOverlap)

\* the windows splitText cuts a text into; none when the text is returned whole
splitWindows(text, chunkSize, chunkOverlap) ==
  IF Len(text) <= EffectiveChunkSize(chunkSize) THEN << >>
  ELSE Windows(text, 0, EffectiveChunkSize(chunkSize),
               EffectiveOverlap(chunkSize, chunkOverlap))

\* RAG.splitText: the text itself when it has at most chunkSize characters,
\* else the trimmed windows that are not empty
splitText(text, chunkSize, chunkOverlap) ==
  IF Len(text) <= EffectiveChunkSize(chunkSize) THEN << text >>
  ELSE LET w       == splitWindows(text, chunkSize, chunkOverlap)
           trimmed == [k \in 1..Len(w) |-> TrimSpace(SubSeq(text, w[k].start + 1, w[k].end))] IN
       SelectSeq(trimmed, LAMBDA c : Len(c) > 0)

\* the embedding service (ollama.Client.Embed), when it answers: the vector of
\* a text (integers stand for its float32 components); no component for an
\* empty text
Embed(text) ==
  IF text = << >> THEN << >>
  ELSE << Cardinality({ i \in 1..Len(text) : text[i] \notin Terminators \cup Whitespace }),
          Cardinality({ i \in 1..Len(text) : text[i] \in Terminators })
            - Cardinality({ i \in 1..Len(text) : text[i] \in Whitespace }) >>

\* sum of a[i] * b[i]
RECURSIVE Dot(_, _)
Dot(a, b) == IF a = << >> THEN 0 ELSE Head(a) * Head(b) + Dot(Tail(a), Tail(b))

\* the score of two vectors without a cosine: different lengths, or a zero vector
ZeroScore == [dot |-> 0, normA |-> 1, normB |-> 1]

\* mutant of cosineSimilarity: the norms are multiplied without their roots
cosineSimilarityWithoutRoots(a, b) ==
  IF Len(a) # Len(b) THEN ZeroScore
  ELSE IF Dot(a, a) = 0 \/ Dot(b, b) = 0 THEN ZeroScore
  ELSE [dot |-> Dot(a, b), normA |-> Dot(a, a) * Dot(a, a), normB |-> Dot(b, b) * Dot(b, b)]

\* cosineSimilarity: 0 for different lengths or a zero norm, else
\* dotProduct / (sqrt(normA) * sqrt(normB)), kept as its three terms
cosineSimilarity(a, b) ==
  IF Len(a) # Len(b) THEN ZeroScore
  ELSE IF Dot(a, a) = 0 \/ Dot(b, b) = 0 THEN ZeroScore
  ELSE [dot |-> Dot(a, b), normA |-> Dot(a, a), normB |-> Dot(b, b)]

\* the square of a score, with the sign of the score, times normA * normB of
\* the other score: comparing these compares the scores
SignedSquare(s, t) ==
  (IF s.dot < 0 THEN -1 ELSE 1) * s.dot * s.dot * t.normA * t.normB

\* results[i].Score > results[j].Score
Greater(s, t) == SignedSquare(s, t) > SignedSquare(t, s)

\* the value of a score is 0 / is 1
IsZero(s) == s.dot = 0

IsOne(s) == s.dot > 0 /\ s.dot * s.dot = s.normA * s.normB

\* mutant of Search: the results are cut to topK without being sorted
SearchUnsorted(documents, queryEmbedding, topK) ==
  LET n == Len(documents)
      k == IF topK > n THEN n ELSE topK IN
  { [i \in 1..k |-> [ Document |-> documents[i], ChunkIndex |-> 0,
                      Score |-> cosineSimilarity(queryEmbedding, documents[i].Embedding) ]] }

\* RAG.Search on a collection that is not empty, once the query is embedded:
\* the results it may return, results[:topK] of the sorted results after topK
\* is clamped to their number. sort.Slice leaves results of equal score in any
\* order, so the first k of the sorted results are any k distinct documents in
\* an order of non-increasing score that no other document outscores
Search(documents, queryEmbedding, topK) ==
  LET n      == Len(documents)
      score  == [i \in 1..n |-> cosineSimilarity(queryEmbedding, documents[i].Embedding)]
      k      == IF topK > n THEN n ELSE topK
      firstK == { o \in [1..k -> 1..n] :
                    /\ \A i, j \in 1..k : i < j => o[i] # o[j] /\ ~Greater(score[o[j]], score[o[i]])
                    /\ \A m \in 1..n : (\A i \in 1..k : o[i] # m) =>
                         \A i \in 1..k : ~Greater(score[m], score[o[i]]) } IN
  { [i \in 1..k |-> [Document |-> documents[o[i]], Score |-> score[o[i]], ChunkIndex |-> 0]] :
      o \in firstK }

-----------------------------------------------------------------------------
\* agent.New, with the sources `cfgs` in the configuration
NewAgent(cfgs, ragCfg) ==
  /\ phase = "new"
  /\ clients = NoFn
  /\ tools = NoFn
  /\ conversations = NoFn
  /\ heap = << >>
  /\ nGen = 0
  /\ chat = [r \in Requests |-> Idle]
  /\ configs = cfgs
  /\ mu = Unlocked
  /\ clientMu = Unlocked
  /\ procs = [g \in Callers |-> NoCall]
  /\ registered = << >>
  /\ launched = NoFn
  /\ stop = NotStopped
  /\ rag = RagNew(ragCfg)
  /\ processes = << >>

\* agent.New with the RAG settings that config.Load fills in
New(cfgs) == NewAgent(cfgs, DefaultConfig)

Init == New(MCPServers)

\* Agent.Start (run by main before the HTTP server accepts requests)
Start ==
  /\ phase = "new"
  /\ \E pingOk \in BOOLEAN, ok \in SUBSET DOMAIN configs :
       IF ~pingOk
       THEN /\ phase' = "exited"
            /\ UNCHANGED <<clients, tools, launched, processes>>
       ELSE /\ phase' = "running"
            /\ clients' = StartClients(clients, configs, ok)
            /\ processes' = StartProcesses(configs, ok)
            /\ launched' = [n \in { configs[i].Name : i \in { j \in DOMAIN configs : configs[j].Enabled } }
                              |-> \E i \in ok : configs[i].Enabled /\ configs[i].Name = n]
            /\ \E order \in Orders(DOMAIN clients') :
                 tools' = RegisterAll(tools, GetAllTools(clients', order))
  /\ UNCHANGED <<conversations, heap, nGen, chat, configs, mu, clientMu, procs, registered, stop, rag>>

-----------------------------------------------------------------------------
(* Agent.Chat / Agent.ChatWithRAG and the turn loop (agent.go) *)

Finished(r) == chat[r].pc \in {"done", "failed"}

\* getOrCreateConversation, first half: pick the id and Load it from the map
LoadConversation(r, reqID, model, content, retrieved) ==
  LET id == IF reqID = "" THEN UUIDs[nGen + 1] ELSE reqID IN
  /\ nGen' = IF reqID = "" THEN nGen + 1 ELSE nGen
  /\ chat' = [chat EXCEPT ![r] =
       [@ EXCEPT !.req = [Message |-> "hi", ConversationID |-> reqID, Model |-> model],
                 !.after = { q \in Requests : Finished(q) },
                 !.retrieved = retrieved,
                 !.id = id, !.userMessage = content,
                 !.conv = IF id \in DOMAIN conversations THEN conversations[id] ELSE 0,
                 !.pc = IF id \in DOMAIN conversations THEN "addUser" ELSE "store"]]
  /\ UNCHANGED <<phase, clients, tools, conversations, heap, libVars>>

\* the ids a client may send: its own ones, and those earlier responses returned
ClientIDs == RequestIDs \cup { chat[q].out.ConversationID : q \in { x \in Requests : chat[x].pc = "done" } }

\* the models a request may name ("": none)
RequestModels == {"", "llama3"}

\* Agent.Chat is called with a request that names one of `models`
ChatNaming(r, models) ==
  /\ phase = "running"
  /\ chat[r].pc = "idle"
  /\ \E reqID \in ClientIDs, model \in models :
       /\ reqID = "" => nGen < Len(UUIDs)
       /\ LoadConversation(r, reqID, model, "hi", NotRetrieved)

\* Agent.Chat is called with a request that names no model
Chat(r) == ChatNaming(r, {""})

\* mutant of RetrievalChat: an error of GetContext fails the request
RetrievalChatFailsOnError(r, outcomes, followed) ==
  /\ phase = "running"
  /\ chat[r].pc = "idle"
  /\ \E reqID \in ClientIDs, out \in outcomes :
       /\ reqID = "" => nGen < Len(UUIDs)
       /\ IF out.err # ""
          THEN /\ chat' = [chat EXCEPT ![r] =
                    [@ EXCEPT !.req = [Message |-> "hi", ConversationID |-> reqID, Model |-> ""],
                              !.retrieved = Retrieved(out, followed),
                              !.err = out.err, !.pc = "failed"]]
               /\ UNCHANGED <<phase, clients, tools, conversations, heap, nGen, libVars>>
          ELSE LoadConversation(r, reqID, "",
                 IF out.context # "" THEN out.context \o RagSeparator \o "hi" ELSE "hi",
                 Retrieved(out, followed))

\* Agent.ChatWithRAG, given what rag.GetContext may return: an error is only
\* logged; the rendered context, when there is one, precedes the message.
\* `followed`: what GetContext returned is kept in `retrieved` (ghost)
RetrievalChat(r, outcomes, followed) ==
  /\ phase = "running"
  /\ chat[r].pc = "idle"
  /\ \E reqID \in ClientIDs, out \in outcomes :
       /\ reqID = "" => nGen < Len(UUIDs)
       /\ LoadConversation(r, reqID, "",
            IF out.context # "" THEN out.context \o RagSeparator \o "hi" ELSE "hi",
            Retrieved(out, followed))

\* Agent.ChatWithRAG over a collection that is not followed: GetContext gives
\* nothing (a failure or no result) or a rendered context
ChatWithRAG(r) == RetrievalChat(r, { [context |-> c, err |-> ""] : c \in RagContexts }, FALSE)

\* cfg.RAG.TopK as config.Load sets it
TopK == 3

\* RAG.GetContext: what it may return. An error of Search is passed on with
\* no context; no result gives no context; else the results are rendered
\* ("ctx" stands for the rendered text)
GetContext(documents, query, topK) ==
  IF documents = << >> THEN { [context |-> "", err |-> ""] }
  ELSE { [context |-> "", err |-> "failed to embed query"] }
       \cup { [context |-> IF Len(results) = 0 THEN "" ELSE "ctx", err |-> ""] :
                results \in Search(documents, Embed(query), topK) }

\* Agent.ChatWithRAG over the collection of the agent: GetContext searches it
\* under the read lock, with the request's message as the query
ChatWithStoredRAG(r) ==
  /\ rag.mu.writer = ""
  /\ rag.mu.pending = {}
  /\ RetrievalChat(r, GetContext(rag.documents, <<"h", "i">>, TopK), TRUE)

\* getOrCreateConversation, second half: NewConversation(id) and Store it
StoreConversation(r) ==
  /\ chat[r].pc = "store"
  /\ heap' = Append(heap, [ID |-> chat[r].id, messages |-> << >>])
  /\ conversations' = Put(conversations, chat[r].id, Len(heap) + 1)
  /\ chat' = [chat EXCEPT ![r] = [@ EXCEPT !.conv = Len(heap) + 1, !.pc = "addUser"]]
  /\ UNCHANGED <<phase, clients, tools, nGen, libVars>>

\* Chat: conv.AddMessage(user message); tools := getAllOllamaTools();
\* conversationLoop is entered: an empty model becomes the configured one
AddUserMessage(r) ==
  /\ chat[r].pc = "addUser"
  /\ heap' = AddMessage(heap, chat[r].conv,
                        Message("user", chat[r].userMessage, << >>, <<r, 0, 0>>))
  /\ chat' = [chat EXCEPT ![r] =
       [@ EXCEPT !.tools = getAllOllamaTools(tools),
                 !.model = IF chat[r].req.Model = "" THEN DefaultModel ELSE chat[r].req.Model,
                 !.pc = "loop"]]
  /\ UNCHANGED <<phase, clients, tools, conversations, nGen, libVars>>

\* mutant of CallModel: the loop bound is off by one
CallModelOffByOne(r) ==
  /\ chat[r].pc = "loop"
  /\ chat' = [chat EXCEPT ![r] =
       IF chat[r].i <= maxIterations
       THEN [@ EXCEPT !.i = @ + 1,
                      !.sent = OllamaChat(GetMessages(heap, chat[r].conv), chat[r].tools),
                      !.pc = "await"]
       ELSE [@ EXCEPT !.err = "max iterations reached", !.pc = "failed"]]
  /\ UNCHANGED <<phase, clients, tools, conversations, heap, nGen, libVars>>

\* mutant of CallModel: the tools are sent in the first round only
CallModelToolsOnce(r) ==
  /\ chat[r].pc = "loop"
  /\ chat' = [chat EXCEPT ![r] =
       IF chat[r].i < maxIterations
       THEN [@ EXCEPT !.i = @ + 1,
                      !.sent = OllamaChat(GetMessages(heap, chat[r].conv),
                                          IF chat[r].i = 0 THEN chat[r].tools ELSE {}),
                      !.pc = "await"]
       ELSE [@ EXCEPT !.err = "max iterations reached", !.pc = "failed"]]
  /\ UNCHANGED <<phase, clients, tools, conversations, heap, nGen, libVars>>

\* conversationLoop, loop head: after maxIterations rounds the request fails;
\* otherwise messages := conv.GetMessages() and a.ollama.Chat(messages, tools) is sent
CallModel(r) ==
  /\ chat[r].pc = "loop"
  /\ chat' = [chat EXCEPT ![r] =
       IF chat[r].i < maxIterations
       THEN [@ EXCEPT !.i = @ + 1,
                      !.sent = OllamaChat(GetMessages(heap, chat[r].conv), chat[r].tools),
                      !.pc = "await"]
       ELSE [@ EXCEPT !.err = "max iterations reached", !.pc = "failed"]]
  /\ UNCHANGED <<phase, clients, tools, conversations, heap, nGen, libVars>>

\* mutant of Reply: the return after a reply without tool calls is missing
ReplyWithoutReturn(r, toolCalls) ==
  LET msg == Message("assistant", ReplyContent(chat[r].i), toolCalls, <<r, chat[r].i, 0>>) IN
  /\ heap' = AddMessage(heap, chat[r].conv, msg)
  /\ chat' = [chat EXCEPT ![r] =
       IF Len(toolCalls) = 0
       THEN [@ EXCEPT !.resp = msg, !.pc = "loop"]
       ELSE [@ EXCEPT !.resp = msg, !.tc = 1, !.pc = "exec"]]
  /\ UNCHANGED <<phase, clients, tools, conversations, nGen, libVars>>

\* mutant of Reply: the cap is checked before the tool calls of the last round run
ReplyChecksCapFirst(r, toolCalls) ==
  LET msg == Message("assistant", ReplyContent(chat[r].i), toolCalls, <<r, chat[r].i, 0>>) IN
  /\ heap' = AddMessage(heap, chat[r].conv, msg)
  /\ chat' = [chat EXCEPT ![r] =
       IF Len(toolCalls) = 0
       THEN [@ EXCEPT !.resp = msg, !.pc = "done",
                      !.out = [Response |-> msg.Content,
                               ToolCalls |-> chat[r].toolCalls,
                               ConversationID |-> heap[chat[r].conv].ID]]
       ELSE IF chat[r].i = maxIterations
       THEN [@ EXCEPT !.resp = msg, !.err = "max iterations reached", !.pc = "failed"]
       ELSE [@ EXCEPT !.resp = msg, !.tc = 1, !.pc = "exec"]]
  /\ UNCHANGED <<phase, clients, tools, conversations, nGen, libVars>>

\* conversationLoop after the model call returns the assistant message `msg`
\* (which it does only under a live context): it is appended; without tool
\* calls the request returns, else the batch starts
Reply(r, toolCalls) ==
  LET msg == Message("assistant", ReplyContent(chat[r].i), toolCalls, <<r, chat[r].i, 0>>) IN
  /\ chat[r].ctx = ""
  /\ heap' = AddMessage(heap, chat[r].conv, msg)
  /\ chat' = [chat EXCEPT ![r] =
       IF Len(toolCalls) = 0
       THEN [@ EXCEPT !.resp = msg, !.pc = "done",
                      !.out = [Response |-> msg.Content,
                               ToolCalls |-> chat[r].toolCalls,
                               ConversationID |-> heap[chat[r].conv].ID]]
       ELSE [@ EXCEPT !.resp = msg, !.tc = 1, !.pc = "exec"]]
  /\ UNCHANGED <<phase, clients, tools, conversations, nGen, libVars>>

\* the model answers with a final text
ModelAnswers(r) ==
  /\ chat[r].pc = "await"
  /\ Reply(r, << >>)

\* the model answers with a batch of tool calls, within its budget `max`
ModelCallsTools(r, max) ==
  /\ chat[r].pc = "await"
  /\ \E n \in 1..(max - Len(chat[r].executed)) :
       Reply(r, Batch(Len(chat[r].executed), n))

\* the model answers with the same tool calls as in the round before
ModelRepeats(r) ==
  /\ chat[r].pc = "await"
  /\ chat[r].i > 1
  /\ Len(chat[r].executed) >= MaxToolCalls
  /\ Reply(r, chat[r].resp.ToolCalls)

\* mutant of ModelFails: the failed model call is tried again
ModelFailsRetries(r) ==
  /\ chat[r].pc = "await"
  /\ chat' = [chat EXCEPT ![r] =
       [@ EXCEPT !.err = "ollama chat failed: " \o "connection refused",
                 !.i = @ - 1, !.pc = "loop"]]
  /\ UNCHANGED <<phase, clients, tools, conversations, heap, nGen, libVars>>

\* mutant of ModelFails: a failed request resets the conversation store
ModelFailsClearsStore(r) ==
  /\ chat[r].pc = "await"
  /\ chat' = [chat EXCEPT ![r] =
       [@ EXCEPT !.err = "ollama chat failed: " \o "connection refused", !.pc = "failed"]]
  /\ conversations' = NoFn
  /\ UNCHANGED <<phase, clients, tools, heap, nGen, libVars>>

\* the model call fails: conversationLoop returns the error
ModelFails(r) ==
  /\ chat[r].pc = "await"
  /\ chat' = [chat EXCEPT ![r] =
       [@ EXCEPT !.err = "ollama chat failed: " \o "connection refused", !.pc = "failed"]]
  /\ UNCHANGED <<phase, clients, tools, conversations, heap, nGen, libVars>>

\* mutant of ExecuteTool: a failing tool call ends the request with its error
ExecuteToolAborts(r) ==
  /\ chat[r].pc = "exec"
  /\ LET tc == chat[r].resp.ToolCalls[chat[r].tc]
         e  == executeToolCall(tools, clients, tc) IN
     chat' = [chat EXCEPT ![r] =
       IF e.err # ""
       THEN [@ EXCEPT !.err = e.err, !.pc = "failed"]
       ELSE [@ EXCEPT !.result = e.result,
                      !.executed = Append(@, <<chat[r].i, chat[r].tc>>),
                      !.pc = "append"]]
  /\ UNCHANGED <<phase, clients, tools, conversations, heap, nGen, libVars>>

\* mutant of ExecuteTool: the calls of a batch are taken from its end
ExecuteToolReversed(r) ==
  /\ chat[r].pc = "exec"
  /\ LET n  == Len(chat[r].resp.ToolCalls) - chat[r].tc + 1
         tc == chat[r].resp.ToolCalls[n] IN
     chat' = [chat EXCEPT ![r] =
       [@ EXCEPT !.result = ToolResult(tools, clients, tc),
                 !.executed = Append(@, <<chat[r].i, n>>),
                 !.pc = "append"]]
  /\ UNCHANGED <<phase, clients, tools, conversations, heap, nGen, libVars>>

\* conversationLoop, tool loop: a.executeToolCall(tc) for the next call of the batch
ExecuteTool(r) ==
  /\ chat[r].pc = "exec"
  /\ LET tc == chat[r].resp.ToolCalls[chat[r].tc] IN
     chat' = [chat EXCEPT ![r] =
       [@ EXCEPT !.result = ToolResult(tools, clients, tc),
                 !.executed = Append(@, <<chat[r].i, chat[r].tc>>),
                 !.pc = "append"]]
  /\ UNCHANGED <<phase, clients, tools, conversations, heap, nGen, libVars>>

\* the request's context is cancelled (the client went away, or a timeout)
Cancel(r) ==
  /\ chat[r].pc \notin {"idle", "done", "failed"}
  /\ chat[r].ctx = ""
  /\ chat' = [chat EXCEPT ![r] =
       [@ EXCEPT !.ctx = "context canceled",
                 !.cancelledAt = <<chat[r].pc, chat[r].i, chat[r].tc>>]]
  /\ UNCHANGED <<phase, clients, tools, conversations, heap, nGen, libVars>>

\* a model call under a cancelled context returns the context's error
ModelCancelled(r) ==
  /\ chat[r].pc = "await"
  /\ chat[r].ctx # ""
  /\ chat' = [chat EXCEPT ![r] =
       [@ EXCEPT !.err = "ollama chat failed: " \o chat[r].ctx, !.pc = "failed"]]
  /\ UNCHANGED <<phase, clients, tools, conversations, heap, nGen, libVars>>

\* executeToolCall is entered for the next call of the batch: an unknown tool
\* is answered at once, else the executor's call is sent to the source
BeginToolCall(r) ==
  /\ chat[r].pc = "exec"
  /\ LET tc == chat[r].resp.ToolCalls[chat[r].tc] IN
     chat' = [chat EXCEPT ![r] =
       IF Get(tools, tc.Name) = Nil
       THEN [@ EXCEPT !.result = ToolResult(tools, clients, tc),
                      !.executed = Append(@, <<chat[r].i, chat[r].tc>>),
                      !.pc = "append"]
       ELSE [@ EXCEPT !.pc = "inflight"]]
  /\ UNCHANGED <<phase, clients, tools, conversations, heap, nGen, libVars>>

\* the call in flight returns: its result or error, or under a cancelled
\* context possibly the context's error
EndToolCall(r) ==
  /\ chat[r].pc = "inflight"
  /\ LET tc == chat[r].resp.ToolCalls[chat[r].tc] IN
     \E result \in {ToolResult(tools, clients, tc)}
                    \cup (IF chat[r].ctx # ""
                          THEN {"Error: " \o "call tool failed: " \o chat[r].ctx} ELSE {}) :
       chat' = [chat EXCEPT ![r] =
         [@ EXCEPT !.result = result,
                   !.executed = Append(@, <<chat[r].i, chat[r].tc>>),
                   !.pc = "append"]]
  /\ UNCHANGED <<phase, clients, tools, conversations, heap, nGen, libVars>>

\* mutant of AppendToolResult: the tool loop is left after the first call
AppendToolResultBreaks(r) ==
  /\ chat[r].pc = "append"
  /\ LET tc == chat[r].resp.ToolCalls[chat[r].tc] IN
     /\ heap' = AddMessage(heap, chat[r].conv,
                  Message("tool", chat[r].result, << >>, <<r, chat[r].i, chat[r].tc>>))
     /\ chat' = [chat EXCEPT ![r] =
          [@ EXCEPT !.toolCalls = Append(@, [Tool |-> tc.Name, Arguments |-> tc.Arguments,
                                             Result |-> chat[r].result]),
                    !.tc = 0,
                    !.pc = "loop"]]
  /\ UNCHANGED <<phase, clients, tools, conversations, nGen, libVars>>

\* mutant of AppendToolResult: the newest call is put at the head of the trace
AppendToolResultPrepends(r) ==
  /\ chat[r].pc = "append"
  /\ LET tc == chat[r].resp.ToolCalls[chat[r].tc] IN
     /\ heap' = AddMessage(heap, chat[r].conv,
                  Message("tool", chat[r].result, << >>, <<r, chat[r].i, chat[r].tc>>))
     /\ chat' = [chat EXCEPT ![r] =
          [@ EXCEPT !.toolCalls = << [Tool |-> tc.Name, Arguments |-> tc.Arguments,
                                      Result |-> chat[r].result] >> \o @,
                    !.tc = IF chat[r].tc < Len(chat[r].resp.ToolCalls) THEN @ + 1 ELSE 0,
                    !.pc = IF chat[r].tc < Len(chat[r].resp.ToolCalls) THEN "exec" ELSE "loop"]]
  /\ UNCHANGED <<phase, clients, tools, conversations, nGen, libVars>>

\* conversationLoop, tool loop: the call is recorded in the trace and its result
\* appended as a tool message; then the next call, or the next round
AppendToolResult(r) ==
  /\ chat[r].pc = "append"
  /\ LET tc == chat[r].resp.ToolCalls[chat[r].tc] IN
     /\ heap' = AddMessage(heap, chat[r].conv,
                  Message("tool", chat[r].result, << >>, <<r, chat[r].i, chat[r].tc>>))
     /\ chat' = [chat EXCEPT ![r] =
          [@ EXCEPT !.toolCalls = Append(@, [Tool |-> tc.Name, Arguments |-> tc.Arguments,
                                             Result |-> chat[r].result]),
                    !.tc = IF chat[r].tc < Len(chat[r].resp.ToolCalls) THEN @ + 1 ELSE 0,
                    !.pc = IF chat[r].tc < Len(chat[r].resp.ToolCalls) THEN "exec" ELSE "loop"]]
  /\ UNCHANGED <<phase, clients, tools, conversations, nGen, libVars>>

-----------------------------------------------------------------------------
(* ToolRegistry called by concurrent goroutines (tool_registry.go:36-67) *)

\* Register calls of a run
MaxRegisters == 3

\* the ToolInfos a caller may register: two of them carry the same name
ToolInputs ==
  { ToolInfoOf([Name |-> "fs"],  "read_file"),
    ToolInfoOf([Name |-> "git"], "read_file"),
    ToolInfoOf([Name |-> "git"], "git_log") }

\* the names a caller may look up
ToolNames == {"read_file", "git_log", "write_file"}

RegistryOps == {"Register", "Get", "List", "Count"}

\* the goroutines inside the critical section of a registry call
Inside(ops) == { g \in Callers : procs[g].op \in ops /\ procs[g].pc \in {"in", "unlock"} }

\* Register calls that have been made and have not written yet
RegistersAhead ==
  Cardinality({ g \in Callers : procs[g].op = "Register" /\ procs[g].pc \in {"lock", "in"} })

\* a goroutine calls Register(tool): r.mu.Lock() is entered
CallRegister(g) ==
  /\ procs[g].pc = "idle"
  /\ Len(registered) + RegistersAhead < MaxRegisters
  /\ \E tool \in ToolInputs :
       procs' = [procs EXCEPT ![g] = [op |-> "Register", arg |-> tool, pc |-> "lock", ret |-> ""]]
  /\ mu' = [mu EXCEPT !.pending = @ \cup {g}]
  /\ UNCHANGED <<phase, clients, tools, conversations, heap, nGen, chat,
                 configs, clientMu, registered, launched, stop, rag, processes>>

\* a goroutine calls Get(name), List() or Count(): r.mu.RLock() is entered
CallRead(g) ==
  /\ procs[g].pc = "idle"
  /\ \/ \E name \in ToolNames :
          procs' = [procs EXCEPT ![g] = [op |-> "Get", arg |-> name, pc |-> "lock", ret |-> ""]]
     \/ \E op \in {"List", "Count"} :
          procs' = [procs EXCEPT ![g] = [op |-> op, arg |-> "", pc |-> "lock", ret |-> ""]]
  /\ UNCHANGED <<phase, clients, tools, conversations, heap, nGen, chat,
                 configs, mu, clientMu, registered, launched, stop, rag, processes>>

\* mutant of Lock: a writer does not wait for the readers
LockIgnoresReaders(g) ==
  /\ procs[g].op = "Register"
  /\ procs[g].pc = "lock"
  /\ mu.writer = ""
  /\ mu' = [mu EXCEPT !.writer = g, !.pending = @ \ {g}]
  /\ procs' = [procs EXCEPT ![g].pc = "in"]
  /\ UNCHANGED <<phase, clients, tools, conversations, heap, nGen, chat,
                 configs, clientMu, registered, launched, stop, rag, processes>>

\* sync.RWMutex.Lock returns: no writer and no reader is inside
Lock(g) ==
  /\ procs[g].op = "Register"
  /\ procs[g].pc = "lock"
  /\ mu.writer = ""
  /\ mu.readers = {}
  /\ mu' = [mu EXCEPT !.writer = g, !.pending = @ \ {g}]
  /\ procs' = [procs EXCEPT ![g].pc = "in"]
  /\ UNCHANGED <<phase, clients, tools, conversations, heap, nGen, chat,
                 configs, clientMu, registered, launched, stop, rag, processes>>

\* sync.RWMutex.RLock returns: no writer is inside and none waits
RLock(g) ==
  /\ procs[g].op \in {"Get", "List", "Count"}
  /\ procs[g].pc = "lock"
  /\ mu.writer = ""
  /\ mu.pending = {}
  /\ mu' = [mu EXCEPT !.readers = @ \cup {g}]
  /\ procs' = [procs EXCEPT ![g].pc = "in"]
  /\ UNCHANGED <<phase, clients, tools, conversations, heap, nGen, chat,
                 configs, clientMu, registered, launched, stop, rag, processes>>

\* Register, under the lock: r.tools[tool.Name] = tool
DoRegister(g) ==
  /\ procs[g].op = "Register"
  /\ procs[g].pc = "in"
  /\ tools' = Register(tools, procs[g].arg)
  /\ registered' = Append(registered, procs[g].arg)
  /\ procs' = [procs EXCEPT ![g].pc = "unlock"]
  /\ UNCHANGED <<phase, clients, conversations, heap, nGen, chat,
                 configs, mu, clientMu, launched, stop, rag, processes>>

\* Get, List or Count, under the read lock: the value it is about to return
DoRead(g) ==
  /\ procs[g].op \in {"Get", "List", "Count"}
  /\ procs[g].pc = "in"
  /\ procs' = [procs EXCEPT ![g].pc = "unlock",
                            ![g].ret = IF procs[g].op = "Get" THEN Get(tools, procs[g].arg)
                                       ELSE IF procs[g].op = "List" THEN List(tools)
                                       ELSE Count(tools)]
  /\ UNCHANGED <<phase, clients, tools, conversations, heap, nGen, chat,
                 configs, mu, clientMu, registered, launched, stop, rag, processes>>

\* the deferred r.mu.Unlock() / r.mu.RUnlock(); the call returns
Unlock(g) ==
  /\ procs[g].op \in RegistryOps
  /\ procs[g].pc = "unlock"
  /\ mu' = IF procs[g].op = "Register"
            THEN [mu EXCEPT !.writer = ""]
            ELSE [mu EXCEPT !.readers = @ \ {g}]
  /\ procs' = [procs EXCEPT ![g] = NoCall]
  /\ UNCHANGED <<phase, clients, tools, conversations, heap, nGen, chat,
                 configs, clientMu, registered, launched, stop, rag, processes>>

-----------------------------------------------------------------------------
(* MCPClient: startup inputs, CallTool by concurrent goroutines, Stop *)

\* two enabled sources that both advertise read_file, and a disabled one
TwoSources ==
  << [Name |-> "fs",  Enabled |-> TRUE,  Tools |-> <<"list_directory", "read_file">>],
     [Name |-> "git", Enabled |-> TRUE,  Tools |-> <<"git_log", "read_file">>],
     [Name |-> "off", Enabled |-> FALSE, Tools |-> <<"write_file">>] >>

\* the configurations the agent may be created with
ConfigInputs == { << >>, MCPServers, TwoSources }

\* the goroutines that run tool executors
ToolCallers == {"g1", "g2"}

\* the arguments they pass
CallArgs == {"missing", "img", "png", "empty"}

\* the names of the enabled sources of a configuration
EnabledNames(cfgs) == { cfgs[i].Name : i \in { j \in DOMAIN cfgs : cfgs[j].Enabled } }

\* a goroutine calls MCPToolExecutor.Execute of a registered tool: CallTool
\* enters m.mu.RLock()
CallExecute(g) ==
  /\ phase = "running"
  /\ procs[g].pc = "idle"
  /\ \E t \in List(tools), args \in CallArgs :
       procs' = [procs EXCEPT ![g] =
         [op |-> "Execute", arg |-> [e |-> t.Executor, args |-> args], pc |-> "lock", ret |-> ""]]
  /\ UNCHANGED <<phase, clients, tools, conversations, heap, nGen, chat,
                 configs, mu, clientMu, registered, launched, stop, rag, processes>>

\* CallTool: m.mu.RLock() returns
ClientRLock(g) ==
  /\ procs[g].op = "Execute"
  /\ procs[g].pc = "lock"
  /\ clientMu.writer = ""
  /\ clientMu.pending = {}
  /\ clientMu' = [clientMu EXCEPT !.readers = @ \cup {g}]
  /\ procs' = [procs EXCEPT ![g].pc = "in"]
  /\ UNCHANGED <<phase, clients, tools, conversations, heap, nGen, chat,
                 configs, mu, registered, launched, stop, rag, processes>>

\* mutant of LookupClient: the read lock is kept while the call is in flight
LookupClientKeepsLock(g) ==
  /\ procs[g].op = "Execute"
  /\ procs[g].pc = "in"
  /\ procs' = [procs EXCEPT ![g].pc = "inflight"]
  /\ UNCHANGED <<phase, clients, tools, conversations, heap, nGen, chat,
                 configs, mu, clientMu, registered, launched, stop, rag, processes>>

\* CallTool: client, ok := m.clients[serverName]; m.mu.RUnlock(); an unknown
\* server is an error, else client.Session.CallTool is sent
LookupClient(g) ==
  /\ procs[g].op = "Execute"
  /\ procs[g].pc = "in"
  /\ clientMu' = [clientMu EXCEPT !.readers = @ \ {g}]
  /\ procs' = [procs EXCEPT ![g] =
       IF procs[g].arg.e.serverName \in DOMAIN clients
       THEN [@ EXCEPT !.pc = "inflight"]
       ELSE [@ EXCEPT !.pc = "returned",
                      !.ret = [resp |-> CallTool(clients, procs[g].arg.e.serverName,
                                                 procs[g].arg.e.toolName, procs[g].arg.args),
                               out  |-> Execute(clients, procs[g].arg.e, procs[g].arg.args)]]]
  /\ UNCHANGED <<phase, clients, tools, conversations, heap, nGen, chat,
                 configs, mu, registered, launched, stop, rag, processes>>

\* the session answers (or fails): CallTool returns, Execute picks the result
Respond(g) ==
  /\ procs[g].op = "Execute"
  /\ procs[g].pc = "inflight"
  /\ procs' = [procs EXCEPT ![g].pc = "returned",
                            ![g].ret = [resp |-> CallTool(clients, procs[g].arg.e.serverName,
                                                          procs[g].arg.e.toolName, procs[g].arg.args),
                                        out  |-> Execute(clients, procs[g].arg.e, procs[g].arg.args)]]
  /\ UNCHANGED <<phase, clients, tools, conversations, heap, nGen, chat,
                 configs, mu, clientMu, registered, launched, stop, rag, processes>>

\* Execute has returned to its caller
Return(g) ==
  /\ procs[g].op = "Execute"
  /\ procs[g].pc = "returned"
  /\ procs' = [procs EXCEPT ![g] = NoCall]
  /\ UNCHANGED <<phase, clients, tools, conversations, heap, nGen, chat,
                 configs, mu, clientMu, registered, launched, stop, rag, processes>>

\* the errors Session.Close and Process.Kill may return
StopErrors == {"", "failed"}

\* Agent.Stop is called: without sources there is no MCPClient and it returns;
\* else MCPClient.Stop enters m.mu.Lock()
StopCall ==
  /\ phase = "running"
  /\ stop.pc = "idle"
  /\ IF Len(configs) > 0
     THEN /\ stop' = [stop EXCEPT !.pc = "lock"]
          /\ clientMu' = [clientMu EXCEPT !.pending = @ \cup {"stop"}]
          /\ phase' = phase
     ELSE /\ stop' = [stop EXCEPT !.pc = "returned", !.ret = "nil"]
          /\ clientMu' = clientMu
          /\ phase' = "stopped"
  /\ UNCHANGED <<clients, tools, conversations, heap, nGen, chat,
                 configs, mu, procs, registered, launched, rag, processes>>

\* MCPClient.Stop: m.mu.Lock() returns; the range over m.clients starts
StopLock ==
  /\ stop.pc = "lock"
  /\ clientMu.writer = ""
  /\ clientMu.readers = {}
  /\ clientMu' = [clientMu EXCEPT !.writer = "stop", !.pending = @ \ {"stop"}]
  /\ \E order \in Orders(DOMAIN clients) :
       stop' = [stop EXCEPT !.order = order, !.k = 1,
                            !.pc = IF Len(order) > 0 THEN "close" ELSE "unlock"]
  /\ UNCHANGED <<phase, clients, tools, conversations, heap, nGen, chat,
                 configs, mu, procs, registered, launched, rag, processes>>

\* mutant of CloseSession: an error of Close ends Stop with that error
CloseSessionReturnsError ==
  /\ stop.pc = "close"
  /\ \E err \in StopErrors :
       LET name == stop.order[stop.k] IN
       /\ clients' = [clients EXCEPT ![name].Session = "closed"]
       /\ processes' = [processes EXCEPT ![clients[name].Pid].Session = "closed"]
       /\ stop' = IF err # ""
                   THEN [stop EXCEPT !.pc = "unlock", !.ret = err,
                           !.log = Append(@, [op |-> "close", name |-> name, err |-> err])]
                   ELSE [stop EXCEPT !.pc = "kill",
                           !.log = Append(@, [op |-> "close", name |-> name, err |-> err])]
  /\ UNCHANGED <<phase, tools, conversations, heap, nGen, chat,
                 configs, mu, clientMu, procs, registered, launched, rag>>

\* MCPClient.Stop: client.Session.Close(), its error dropped
CloseSession ==
  /\ stop.pc = "close"
  /\ \E err \in StopErrors :
       LET name == stop.order[stop.k] IN
       /\ clients' = [clients EXCEPT ![name].Session = "closed"]
       /\ processes' = [processes EXCEPT ![clients[name].Pid].Session = "closed"]
       /\ stop' = [stop EXCEPT !.pc = "kill",
                     !.log = Append(@, [op |-> "close", name |-> name, err |-> err])]
  /\ UNCHANGED <<phase, tools, conversations, heap, nGen, chat,
                 configs, mu, clientMu, procs, registered, launched, rag>>

\* MCPClient.Stop: client.Cmd.Process.Kill(), its error dropped; next client
KillProcess ==
  /\ stop.pc = "kill"
  /\ \E err \in StopErrors :
       LET name == stop.order[stop.k] IN
       /\ clients' = [clients EXCEPT ![name].Cmd = "killed"]
       /\ processes' = [processes EXCEPT ![clients[name].Pid].Cmd = "killed"]
       /\ stop' = [stop EXCEPT !.k = @ + 1,
                     !.pc = IF stop.k < Len(stop.order) THEN "close" ELSE "unlock",
                     !.log = Append(@, [op |-> "kill", name |-> name, err |-> err])]
  /\ UNCHANGED <<phase, tools, conversations, heap, nGen, chat,
                 configs, mu, clientMu, procs, registered, launched, rag>>

\* MCPClient.Stop returns nil (deferred m.mu.Unlock()), and so does Agent.Stop
StopReturn ==
  /\ stop.pc = "unlock"
  /\ clientMu' = [clientMu EXCEPT !.writer = ""]
  /\ stop' = [stop EXCEPT !.pc = "returned", !.ret = IF @ = "-" THEN "nil" ELSE @]
  /\ phase' = "stopped"
  /\ UNCHANGED <<clients, tools, conversations, heap, nGen, chat,
                 configs, mu, procs, registered, launched, rag, processes>>

-----------------------------------------------------------------------------
(* MCPToolToOllamaTool applied to declared schemas (converter.go) *)

\* a key that the schema does not have
Absent == [kind |-> "absent"]

\* what a schema may hold under "required"
RequiredInputs ==
  << Absent,
     ListV(<< >>),
     ListV(<< StrV("path") >>),
     ListV(<< StrV("path"), NumV(1), StrV("ghost") >>),
     StrV("path") >>

\* what a schema may hold for one property
PropertyInputs ==
  << StrV("string"),
     MapV(NoFn),
     MapV(("type" :> StrV("string")) @@ ("description" :> StrV("the path"))),
     MapV(("type" :> NumV(1)) @@ ("enum" :> ListV(<< StrV("a"), NumV(2) >>))),
     MapV(("type" :> StrV("string")) @@ ("enum" :> StrV("a")) @@ ("default" :> StrV("a"))) >>

\* what a schema may hold under "properties"
PropertiesInputs ==
  << Absent, ListV(<< >>), MapV(NoFn) >>
  \o [i \in 1..Len(PropertyInputs) |->
        MapV(("path" :> PropertyInputs[i])
             @@ ("mode" :> PropertyInputs[(i % Len(PropertyInputs)) + 1]))]

\* an object schema with the given "required" and "properties"
ObjectSchema(req, props) ==
  MapV([k \in {"type"} \cup (IF req = Absent THEN {} ELSE {"required"})
                      \cup (IF props = Absent THEN {} ELSE {"properties"})
         |-> IF k = "type" THEN StrV("object") ELSE IF k = "required" THEN req ELSE props])

\* the declared schemas: absent, a scalar, a list, and the object schemas
SchemaInputs ==
  << NilV, StrV("object"), NumV(0), ListV(<< StrV("object") >>) >>
  \o [n \in 1..(Len(RequiredInputs) * Len(PropertiesInputs)) |->
        ObjectSchema(RequiredInputs[((n - 1) % Len(RequiredInputs)) + 1],
                     PropertiesInputs[((n - 1) \div Len(RequiredInputs)) + 1])]

\* the goroutines that convert tools
Converters == {"g1", "g2"}

\* MCPToolToOllamaTool is called with a tool that declares one of the schemas
CallConvert(g) ==
  /\ procs[g].pc = "idle"
  /\ \E n \in 1..Len(SchemaInputs) :
       procs' = [procs EXCEPT ![g] =
         [ op |-> "Convert", pc |-> "call", ret |-> "",
           arg |-> [Name |-> "read_file", Description |-> "reads a file",
                    InputSchema |-> SchemaInputs[n]] ]]
  /\ UNCHANGED <<phase, clients, tools, conversations, heap, nGen, chat,
                 configs, mu, clientMu, registered, launched, stop, rag, processes>>

\* it returns the descriptor
Convert(g) ==
  /\ procs[g].op = "Convert"
  /\ procs[g].pc = "call"
  /\ procs' = [procs EXCEPT ![g].pc = "returned", ![g].ret = MCPToolToOllamaTool(procs[g].arg)]
  /\ UNCHANGED <<phase, clients, tools, conversations, heap, nGen, chat,
                 configs, mu, clientMu, registered, launched, stop, rag, processes>>

\* the caller is done with the descriptor
ReturnConvert(g) ==
  /\ procs[g].op = "Convert"
  /\ procs[g].pc = "returned"
  /\ procs' = [procs EXCEPT ![g] = NoCall]
  /\ UNCHANGED <<phase, clients, tools, conversations, heap, nGen, chat,
                 configs, mu, clientMu, registered, launched, stop, rag, processes>>

-----------------------------------------------------------------------------
(* rag.RAG: documents added, cleared, counted and searched by goroutines *)

\* the longest text handed to AddDocument
MaxTextLen == 18

\* the characters other than letters that a text may hold
Marks == {".", " ", "\n"}

\* the texts: letters, with up to two marks anywhere
TextInputs ==
  UNION { { [i \in 1..n |-> IF i = p THEN m1 ELSE IF i = q THEN m2 ELSE "a"] :
              p \in 1..n, q \in 1..n, m1 \in Marks, m2 \in Marks }
          \cup { [i \in 1..n |-> "a"] } : n \in 0..MaxTextLen }

\* the chunk sizes and overlaps a configuration may give
ChunkConfigs ==
  << [ChunkSize |-> 5, ChunkOverlap |-> 1],
     [ChunkSize |-> 5, ChunkOverlap |-> 3],
     [ChunkSize |-> 16, ChunkOverlap |-> 1],
     [ChunkSize |-> 4, ChunkOverlap |-> 4],
     [ChunkSize |-> 0, ChunkOverlap |-> 0],
     [ChunkSize |-> -1, ChunkOverlap |-> 600] >>

\* an overlap of chunkSize - 1, and a negative one
EdgeOverlaps ==
  << [ChunkSize |-> 5, ChunkOverlap |-> 4],
     [ChunkSize |-> 5, ChunkOverlap |-> -1] >>

\* fmt.Sprintf("%s_chunk_%d", id, i)
ChunkID(id, i) == <<id, "_chunk_", i>>

RagWriteOps == {"AddDocument", "AddDocumentWithChunks", "Clear"}

RagReadOps == {"Search", "DocumentCount"}

\* a goroutine calls AddDocument(ctx, id, content, metadata): r.mu.Lock() is entered
CallAddDocument(g, ids, texts) ==
  /\ procs[g].pc = "idle"
  /\ \E id \in ids, content \in texts :
       procs' = [procs EXCEPT ![g] =
         [ op |-> "AddDocument", pc |-> "lock", ret |-> "",
           arg |-> [id |-> id, content |-> content, metadata |-> id],
           loc |-> [chunks |-> << >>, windows |-> << >>, i |-> 0, base |-> 0,
                    chunkSize |-> 0, chunkOverlap |-> 0] ]]
  /\ rag' = [rag EXCEPT !.mu.pending = @ \cup {g}]
  /\ UNCHANGED <<phase, clients, tools, conversations, heap, nGen, chat,
                 configs, mu, clientMu, registered, launched, stop, processes>>

\* a goroutine calls AddDocumentWithChunks(ctx, id, chunks, metadata)
CallAddDocumentWithChunks(g, ids, lists) ==
  /\ procs[g].pc = "idle"
  /\ \E id \in ids, chunks \in lists :
       procs' = [procs EXCEPT ![g] =
         [ op |-> "AddDocumentWithChunks", pc |-> "lock", ret |-> "",
           arg |-> [id |-> id, chunks |-> chunks, metadata |-> id],
           loc |-> [chunks |-> << >>, windows |-> << >>, i |-> 0, base |-> 0,
                    chunkSize |-> 0, chunkOverlap |-> 0] ]]
  /\ rag' = [rag EXCEPT !.mu.pending = @ \cup {g}]
  /\ UNCHANGED <<phase, clients, tools, conversations, heap, nGen, chat,
                 configs, mu, clientMu, registered, launched, stop, processes>>

\* a goroutine calls Clear()
CallClear(g) ==
  /\ procs[g].pc = "idle"
  /\ procs' = [procs EXCEPT ![g] = [op |-> "Clear", pc |-> "lock", ret |-> "", arg |-> ""]]
  /\ rag' = [rag EXCEPT !.mu.pending = @ \cup {g}]
  /\ UNCHANGED <<phase, clients, tools, conversations, heap, nGen, chat,
                 configs, mu, clientMu, registered, launched, stop, processes>>

\* mutant of RagLock: a writer does not wait for the readers
RagLockIgnoresReaders(g) ==
  /\ procs[g].op \in RagWriteOps
  /\ procs[g].pc = "lock"
  /\ rag.mu.writer = ""
  /\ rag' = [rag EXCEPT !.mu.writer = g, !.mu.pending = @ \ {g}]
  /\ procs' = [procs EXCEPT ![g] =
       IF procs[g].op = "AddDocument"
       THEN [@ EXCEPT !.pc = "in", !.loc.base = Len(rag.documents),
               !.loc.chunks = splitText(procs[g].arg.content, rag.chunkSize, rag.chunkOverlap),
               !.loc.windows = splitWindows(procs[g].arg.content, rag.chunkSize, rag.chunkOverlap),
               !.loc.chunkSize = EffectiveChunkSize(rag.chunkSize),
               !.loc.chunkOverlap = EffectiveOverlap(rag.chunkSize, rag.chunkOverlap)]
       ELSE IF procs[g].op = "AddDocumentWithChunks"
       THEN [@ EXCEPT !.pc = "in", !.loc.base = Len(rag.documents),
                      !.loc.chunks = procs[g].arg.chunks]
       ELSE [@ EXCEPT !.pc = "in"]]
  /\ UNCHANGED <<phase, clients, tools, conversations, heap, nGen, chat,
                 configs, mu, clientMu, registered, launched, stop, processes>>

\* r.mu.Lock() returns: no writer and no reader is inside. AddDocument then
\* splits the content (line 182); the chunks of AddDocumentWithChunks are given
RagLock(g) ==
  /\ procs[g].op \in RagWriteOps
  /\ procs[g].pc = "lock"
  /\ rag.mu.writer = ""
  /\ rag.mu.readers = {}
  /\ rag' = [rag EXCEPT !.mu.writer = g, !.mu.pending = @ \ {g}]
  /\ procs' = [procs EXCEPT ![g] =
       IF procs[g].op = "AddDocument"
       THEN [@ EXCEPT !.pc = "in", !.loc.base = Len(rag.documents),
               !.loc.chunks = splitText(procs[g].arg.content, rag.chunkSize, rag.chunkOverlap),
               !.loc.windows = splitWindows(procs[g].arg.content, rag.chunkSize, rag.chunkOverlap),
               !.loc.chunkSize = EffectiveChunkSize(rag.chunkSize),
               !.loc.chunkOverlap = EffectiveOverlap(rag.chunkSize, rag.chunkOverlap)]
       ELSE IF procs[g].op = "AddDocumentWithChunks"
       THEN [@ EXCEPT !.pc = "in", !.loc.base = Len(rag.documents),
                      !.loc.chunks = procs[g].arg.chunks]
       ELSE [@ EXCEPT !.pc = "in"]]
  /\ UNCHANGED <<phase, clients, tools, conversations, heap, nGen, chat,
                 configs, mu, clientMu, registered, launched, stop, processes>>

\* mutant of EmbedChunk: the records are keyed from 1
EmbedChunkKeysFromOne(g) ==
  /\ procs[g].op \in {"AddDocument", "AddDocumentWithChunks"}
  /\ procs[g].pc = "in"
  /\ procs[g].loc.i < Len(procs[g].loc.chunks)
  /\ LET i     == procs[g].loc.i
         chunk == procs[g].loc.chunks[i + 1] IN
     \E ok \in BOOLEAN :
       IF ok
       THEN /\ rag' = [rag EXCEPT !.documents = Append(@,
                         [ ID |-> ChunkID(procs[g].arg.id, i + 1), Content |-> chunk,
                           Embedding |-> Embed(chunk), Metadata |-> procs[g].arg.metadata ])]
            /\ procs' = [procs EXCEPT ![g].loc.i = i + 1]
       ELSE /\ rag' = [rag EXCEPT !.mu.writer = ""]
            /\ procs' = [procs EXCEPT ![g].pc = "returned",
                                      ![g].ret = <<"failed to embed chunk", i>>]
  /\ UNCHANGED <<phase, clients, tools, conversations, heap, nGen, chat,
                 configs, mu, clientMu, registered, launched, stop, processes>>

\* one round of the loop over the chunks: the chunk is embedded and appended,
\* or the embedding fails and the call returns the error (the deferred Unlock
\* runs)
EmbedChunk(g) ==
  /\ procs[g].op \in {"AddDocument", "AddDocumentWithChunks"}
  /\ procs[g].pc = "in"
  /\ procs[g].loc.i < Len(procs[g].loc.chunks)
  /\ LET i     == procs[g].loc.i
         chunk == procs[g].loc.chunks[i + 1] IN
     \E ok \in BOOLEAN :
       IF ok
       THEN /\ rag' = [rag EXCEPT !.documents = Append(@,
                         [ ID |-> ChunkID(procs[g].arg.id, i), Content |-> chunk,
                           Embedding |-> Embed(chunk), Metadata |-> procs[g].arg.metadata ])]
            /\ procs' = [procs EXCEPT ![g].loc.i = i + 1]
       ELSE /\ rag' = [rag EXCEPT !.mu.writer = ""]
            /\ procs' = [procs EXCEPT ![g].pc = "returned",
                                      ![g].ret = <<"failed to embed chunk", i>>]
  /\ UNCHANGED <<phase, clients, tools, conversations, heap, nGen, chat,
                 configs, mu, clientMu, registered, launched, stop, processes>>

\* every chunk is stored: the call returns nil (the deferred Unlock runs)
AddReturn(g) ==
  /\ procs[g].op \in {"AddDocument", "AddDocumentWithChunks"}
  /\ procs[g].pc = "in"
  /\ procs[g].loc.i = Len(procs[g].loc.chunks)
  /\ rag' = [rag EXCEPT !.mu.writer = ""]
  /\ procs' = [procs EXCEPT ![g].pc = "returned", ![g].ret = "nil"]
  /\ UNCHANGED <<phase, clients, tools, conversations, heap, nGen, chat,
                 configs, mu, clientMu, registered, launched, stop, processes>>

\* Clear, under the lock: r.documents = make([]*Document, 0)
DoClear(g) ==
  /\ procs[g].op = "Clear"
  /\ procs[g].pc = "in"
  /\ rag' = [rag EXCEPT !.documents = << >>, !.mu.writer = ""]
  /\ procs' = [procs EXCEPT ![g].pc = "returned"]
  /\ UNCHANGED <<phase, clients, tools, conversations, heap, nGen, chat,
                 configs, mu, clientMu, registered, launched, stop, processes>>

\* the caller goes on after a call of the retrieval engine
RagReturn(g) ==
  /\ procs[g].op \in RagWriteOps \cup RagReadOps \cup {"LoadRAGDocumentsFromDir"}
  /\ procs[g].pc = "returned"
  /\ "frame" \notin DOMAIN procs[g]
  /\ procs' = [procs EXCEPT ![g] = NoCall]
  /\ UNCHANGED <<phase, clients, tools, conversations, heap, nGen, chat,
                 configs, mu, clientMu, registered, launched, stop, rag, processes>>

\* the largest number of stored chunks at which a goroutine still adds
MaxDocuments == 2

\* the texts and chunk lists added to a collection that is searched
SearchTexts ==
  { << >>, <<"a">>, <<".">>, <<" ">>, <<"\n">>, <<"a", ".">>,
    <<"a", "a", "a", "a", "a", "a", ".">> }

ChunkLists == { << >>, << <<"a">>, <<" ", "a">> >> }

\* the query texts and the topK of a search
Queries == { << >>, <<"a">>, <<".">>, <<" ">>, <<"\n">>, <<"a", "a", ".">> }

TopKs == 0..3

\* a goroutine calls Search(ctx, query, topK): r.mu.RLock() is entered
CallSearch(g, queries, topKs) ==
  /\ procs[g].pc = "idle"
  /\ \E query \in queries, topK \in topKs :
       procs' = [procs EXCEPT ![g] =
         [ op |-> "Search", pc |-> "lock", ret |-> "",
           arg |-> [query |-> query, topK |-> topK] ]]
  /\ UNCHANGED <<phase, clients, tools, conversations, heap, nGen, chat,
                 configs, mu, clientMu, registered, launched, stop, rag, processes>>

\* a goroutine calls DocumentCount()
CallDocumentCount(g) ==
  /\ procs[g].pc = "idle"
  /\ procs' = [procs EXCEPT ![g] = [op |-> "DocumentCount", pc |-> "lock", ret |-> "", arg |-> ""]]
  /\ UNCHANGED <<phase, clients, tools, conversations, heap, nGen, chat,
                 configs, mu, clientMu, registered, launched, stop, rag, processes>>

\* r.mu.RLock() returns: no writer is inside and none waits
RagRLock(g) ==
  /\ procs[g].op \in RagReadOps
  /\ procs[g].pc = "lock"
  /\ rag.mu.writer = ""
  /\ rag.mu.pending = {}
  /\ rag' = [rag EXCEPT !.mu.readers = @ \cup {g}]
  /\ procs' = [procs EXCEPT ![g].pc = "in"]
  /\ UNCHANGED <<phase, clients, tools, conversations, heap, nGen, chat,
                 configs, mu, clientMu, registered, launched, stop, processes>>

\* Search, under the read lock: nil for an empty collection, the error of the
\* embedding of the query, or the first topK of the sorted results; `seen` is
\* the collection it read (ghost). The deferred RUnlock runs
DoSearch(g) ==
  /\ procs[g].op = "Search"
  /\ procs[g].pc = "in"
  /\ \E ok \in BOOLEAN :
       \E results \in IF rag.documents = << >> \/ ~ok THEN { << >> }
                      ELSE Search(rag.documents, Embed(procs[g].arg.query), procs[g].arg.topK) :
         procs' = [procs EXCEPT ![g].pc = "returned",
                     ![g].ret = [ results |-> results, seen |-> rag.documents,
                                  err |-> IF rag.documents # << >> /\ ~ok
                                          THEN "failed to embed query" ELSE "" ]]
  /\ rag' = [rag EXCEPT !.mu.readers = @ \ {g}]
  /\ UNCHANGED <<phase, clients, tools, conversations, heap, nGen, chat,
                 configs, mu, clientMu, registered, launched, stop, processes>>

\* DocumentCount, under the read lock: len(r.documents)
DoDocumentCount(g) ==
  /\ procs[g].op = "DocumentCount"
  /\ procs[g].pc = "in"
  /\ procs' = [procs EXCEPT ![g].pc = "returned",
                 ![g].ret = [count |-> Len(rag.documents), seen |-> rag.documents]]
  /\ rag' = [rag EXCEPT !.mu.readers = @ \ {g}]
  /\ UNCHANGED <<phase, clients, tools, conversations, heap, nGen, chat,
                 configs, mu, clientMu, registered, launched, stop, processes>>

-----------------------------------------------------------------------------
(* Agent.LoadRAGDocumentsFromDir *)

\* a regular file and a directory of the file system
File(name, content) == [Name |-> name, IsDir |-> FALSE, Content |-> content, Entries |-> << >>]

Dir(name, entries) == [Name |-> name, IsDir |-> TRUE, Content |-> << >>, Entries |-> entries]

\* the directories an import may name: one with markdown files, other files
\* and a subdirectory; an empty one; "missing" does not exist
FileSystem ==
  [ docs  |-> << File(<<".", "m", "d">>, <<"a">>),
                 File(<<"a", ".", "m", "d">>, <<"a", "a", "a", "a", "a", "a", "a">>),
                 File(<<"b", ".", "M", "D">>, <<"a">>),
                 File(<<"c", ".", "t", "x", "t">>, <<"a">>),
                 Dir(<<"d", ".", "m", "d">>, << File(<<"deep", ".", "m", "d">>, <<"a">>) >>),
                 File(<<"e", ".", "v", "1", ".", "m", "d">>, <<".">>),
                 File(<<"m", "d">>, <<"a">>) >>,
    empty |-> << >> ]

\* filepath.Ext: the suffix of the name from its last dot on, "" without a dot
Ext(name) ==
  LET dots == { i \in 1..Len(name) : name[i] = "." } IN
  IF dots = {} THEN << >>
  ELSE SubSeq(name, CHOOSE i \in dots : \A j \in dots : j <= i, Len(name))

\* entry.Name()[:len(entry.Name())-3]
DocID(name) == SubSeq(name, 1, Len(name) - 3)

\* a goroutine calls LoadRAGDocumentsFromDir(ctx, dir)
CallImport(g) ==
  /\ procs[g].pc = "idle"
  /\ \E dir \in DOMAIN FileSystem \cup {"missing"} :
       procs' = [procs EXCEPT ![g] =
         [ op |-> "LoadRAGDocumentsFromDir", pc |-> "readdir", ret |-> "",
           arg |-> [dir |-> dir],
           loc |-> [entries |-> << >>, k |-> 0, loadedCount |-> 0, log |-> << >>] ]]
  /\ UNCHANGED <<phase, clients, tools, conversations, heap, nGen, chat,
                 configs, mu, clientMu, registered, launched, stop, rag, processes>>

\* os.ReadDir: the entries of the directory, or the error that ends the import
ReadDir(g) ==
  /\ procs[g].op = "LoadRAGDocumentsFromDir"
  /\ procs[g].pc = "readdir"
  /\ procs' = IF procs[g].arg.dir \in DOMAIN FileSystem
              THEN [procs EXCEPT ![g].pc = "entry",
                                 ![g].loc.entries = FileSystem[procs[g].arg.dir]]
              ELSE [procs EXCEPT ![g].pc = "returned", ![g].ret = "failed to read directory"]
  /\ UNCHANGED <<phase, clients, tools, conversations, heap, nGen, chat,
                 configs, mu, clientMu, registered, launched, stop, rag, processes>>

\* one entry of the loop: a directory or a name without the extension ".md"
\* is passed over; the file is read, and when that fails it is passed over;
\* else AddDocument is called with the name less its last three characters.
\* `log` keeps what was done with each entry (ghost)
ImportEntry(g) ==
  /\ procs[g].op = "LoadRAGDocumentsFromDir"
  /\ procs[g].pc = "entry"
  /\ procs[g].loc.k < Len(procs[g].loc.entries)
  /\ LET entry == procs[g].loc.entries[procs[g].loc.k + 1]
         pass(why) == [procs EXCEPT ![g].loc.k = @ + 1,
                                    ![g].loc.log = Append(@, [Name |-> entry.Name, did |-> why])] IN
     IF entry.IsDir
     THEN procs' = pass("directory") /\ UNCHANGED rag
     ELSE IF Ext(entry.Name) # <<".", "m", "d">>
     THEN procs' = pass("extension") /\ UNCHANGED rag
     ELSE \E readOk \in BOOLEAN :
            IF ~readOk
            THEN procs' = pass("read failed") /\ UNCHANGED rag
            ELSE /\ procs' = [procs EXCEPT ![g] =
                      [ op |-> "AddDocument", pc |-> "lock", ret |-> "",
                        arg |-> [ id |-> DocID(entry.Name), content |-> entry.Content,
                                  metadata |-> [ source |-> <<procs[g].arg.dir, "/", entry.Name>>,
                                                 file |-> entry.Name ] ],
                        loc |-> [chunks |-> << >>, windows |-> << >>, i |-> 0, base |-> 0,
                    chunkSize |-> 0, chunkOverlap |-> 0],
                        frame |-> procs[g] ]]
                 /\ rag' = [rag EXCEPT !.mu.pending = @ \cup {g}]
  /\ UNCHANGED <<phase, clients, tools, conversations, heap, nGen, chat,
                 configs, mu, clientMu, registered, launched, stop, processes>>

\* mutant of ImportAdded: an error of AddDocument ends the import
ImportAddedAborts(g) ==
  /\ procs[g].op = "AddDocument"
  /\ procs[g].pc = "returned"
  /\ "frame" \in DOMAIN procs[g]
  /\ LET f     == procs[g].frame
         entry == f.loc.entries[f.loc.k + 1] IN
     procs' = [procs EXCEPT ![g] =
       IF procs[g].ret = "nil"
       THEN [f EXCEPT !.loc.k = @ + 1,
                      !.loc.loadedCount = @ + 1,
                      !.loc.log = Append(@, [Name |-> entry.Name, did |-> "loaded"])]
       ELSE [f EXCEPT !.pc = "returned", !.ret = "failed to add document",
                      !.loc.log = Append(@, [Name |-> entry.Name, did |-> "add failed"])]]
  /\ UNCHANGED <<phase, clients, tools, conversations, heap, nGen, chat,
                 configs, mu, clientMu, registered, launched, stop, rag, processes>>

\* AddDocument has returned to the import: an error is logged and the loop
\* goes on, a success is counted
ImportAdded(g) ==
  /\ procs[g].op = "AddDocument"
  /\ procs[g].pc = "returned"
  /\ "frame" \in DOMAIN procs[g]
  /\ LET f     == procs[g].frame
         entry == f.loc.entries[f.loc.k + 1] IN
     procs' = [procs EXCEPT ![g] =
       [f EXCEPT !.loc.k = @ + 1,
                 !.loc.loadedCount = IF procs[g].ret = "nil" THEN @ + 1 ELSE @,
                 !.loc.log = Append(@, [ Name |-> entry.Name,
                                         did |-> IF procs[g].ret = "nil" THEN "loaded"
                                                 ELSE "add failed" ])]]
  /\ UNCHANGED <<phase, clients, tools, conversations, heap, nGen, chat,
                 configs, mu, clientMu, registered, launched, stop, rag, processes>>

\* after the last entry: the number of chunks is read for the log line
\* (DocumentCount, under the read lock) and the import returns nil
ImportReturn(g) ==
  /\ procs[g].op = "LoadRAGDocumentsFromDir"
  /\ procs[g].pc = "entry"
  /\ procs[g].loc.k = Len(procs[g].loc.entries)
  /\ rag.mu.writer = ""
  /\ rag.mu.pending = {}
  /\ procs' = [procs EXCEPT ![g].pc = "returned", ![g].ret = "nil"]
  /\ UNCHANGED <<phase, clients, tools, conversations, heap, nGen, chat,
                 configs, mu, clientMu, registered, launched, stop, rag, processes>>

-----------------------------------------------------------------------------
(* Specifications *)

\* the steps of a request once it has entered Chat
Serve(r) ==
  \/ StoreConversation(r)
  \/ AddUserMessage(r)
  \/ CallModel(r)
  \/ ModelAnswers(r)
  \/ ModelFails(r)

\* the steps of a batch of tool calls
ServeTools(r, max) ==
  \/ ModelCallsTools(r, max)
  \/ ExecuteTool(r)
  \/ AppendToolResult(r)

\* concurrent requests; the model asks for at most MaxToolCalls tool calls in each
Next ==
  \/ Start
  \/ \E r \in Concurrent :
       \/ Chat(r)
       \/ ChatWithRAG(r)
       \/ Serve(r)
       \/ ServeTools(r, MaxConcurrentToolCalls)

Spec == Init /\ [][Next]_vars

\* one request alone, which the model may keep in the turn loop up to the cap
NextCap ==
  \/ Start
  \/ \E r \in {"r1"} :
       \/ Chat(r)
       \/ ChatWithRAG(r)
       \/ Serve(r)
       \/ ServeTools(r, MaxToolCalls)
       \/ ModelRepeats(r)

SpecCap == Init /\ [][NextCap]_vars

\* three requests in any interleaving, the model asking for no tool
NextLater ==
  \/ Start
  \/ \E r \in Requests :
       \/ Chat(r)
       \/ Serve(r)

SpecLater == Init /\ [][NextLater]_vars

\* Chat is called while request `first` is in its last rounds, or after it ended
ChatLate(r, first) ==
  /\ chat[first].i >= maxIterations - 1 \/ Finished(first)
  /\ Chat(r)

\* a request that runs up to the cap or fails, and a second one that arrives
\* during its last rounds or after it
NextFrame ==
  \/ Start
  \/ \E r \in {"r1"} :
       \/ Chat(r)
       \/ Serve(r)
       \/ ServeTools(r, MaxToolCalls)
       \/ ModelRepeats(r)
  \/ \E r \in {"r2"} :
       \/ ChatLate(r, "r1")
       \/ Serve(r)

SpecFrame == Init /\ [][NextFrame]_vars

\* one request whose context may be cancelled at any point; its tool calls are
\* split into the call and the return
NextCancel ==
  \/ Start
  \/ \E r \in {"r1"} :
       \/ Chat(r)
       \/ Serve(r)
       \/ ModelCallsTools(r, MaxToolCalls)
       \/ BeginToolCall(r)
       \/ EndToolCall(r)
       \/ AppendToolResult(r)
       \/ Cancel(r)
       \/ ModelCancelled(r)

SpecCancel == Init /\ [][NextCancel]_vars

\* goroutines that convert tools with the declared schemas
NextConvert ==
  \E g \in Converters :
    \/ CallConvert(g)
    \/ Convert(g)
    \/ ReturnConvert(g)

SpecConvert == Init /\ [][NextConvert]_vars

\* a retrieval engine with one of the chunk configurations: one goroutine
\* adds a text to the empty collection and clears it again
InitChunk ==
  \E n \in 1..Len(ChunkConfigs \o EdgeOverlaps) :
    NewAgent(MCPServers, (ChunkConfigs \o EdgeOverlaps)[n])

\* a retrieval engine with one of the chunk configurations, to be searched
InitSearch == \E n \in 1..Len(ChunkConfigs) : NewAgent(MCPServers, ChunkConfigs[n])

NextChunk ==
  \/ rag.documents = << >> /\ CallAddDocument("g1", {"d1"}, TextInputs)
  \/ rag.documents # << >> /\ CallClear("g1")
  \/ RagLock("g1")
  \/ EmbedChunk("g1")
  \/ AddReturn("g1")
  \/ DoClear("g1")
  \/ RagReturn("g1")

SpecChunk == InitChunk /\ [][NextChunk]_vars

\* one goroutine fills a collection with short documents and searches it
NextSearch ==
  \/ Len(rag.documents) < MaxDocuments /\ CallAddDocument("g1", {"d1"}, SearchTexts)
  \/ Len(rag.documents) < MaxDocuments /\ CallAddDocumentWithChunks("g1", {"d2"}, ChunkLists)
  \/ CallSearch("g1", Queries, TopKs)
  \/ CallDocumentCount("g1")
  \/ RagLock("g1")
  \/ EmbedChunk("g1")
  \/ AddReturn("g1")
  \/ RagRLock("g1")
  \/ DoSearch("g1")
  \/ DoDocumentCount("g1")
  \/ RagReturn("g1")

SpecSearch == InitSearch /\ [][NextSearch]_vars

\* goroutines add documents of two chunks, clear, count and search
\* concurrently: g1 adds texts, g2 adds chunk lists or clears, g3 reads
InitRag == NewAgent(MCPServers, ChunkConfigs[1])

NextRag ==
  \/ Len(rag.documents) < MaxDocuments
       /\ CallAddDocument("g1", {"d1"}, { <<"a", "a", "a", "a", "a", "a", "a">> })
  \/ Len(rag.documents) < MaxDocuments
       /\ CallAddDocumentWithChunks("g2", {"d2"}, { << <<"a">>, <<".">> >> })
  \/ CallClear("g2")
  \/ CallSearch("g3", { <<"a">> }, {1})
  \/ CallDocumentCount("g3")
  \/ \E g \in Callers :
       \/ RagLock(g)
       \/ EmbedChunk(g)
       \/ AddReturn(g)
       \/ DoClear(g)
       \/ RagRLock(g)
       \/ DoSearch(g)
       \/ DoDocumentCount(g)
       \/ RagReturn(g)

SpecRag == InitRag /\ [][NextRag]_vars

\* a goroutine imports a directory into the empty collection and clears it
NextImport ==
  \/ rag.documents = << >> /\ CallImport("g1")
  \/ rag.documents # << >> /\ CallClear("g1")
  \/ ReadDir("g1")
  \/ ImportEntry("g1")
  \/ RagLock("g1")
  \/ EmbedChunk("g1")
  \/ AddReturn("g1")
  \/ ImportAdded("g1")
  \/ ImportReturn("g1")
  \/ DoClear("g1")
  \/ RagReturn("g1")

SpecImport == InitRag /\ [][NextImport]_vars

\* a goroutine adds documents while a request is served by ChatWithRAG
NextRagChat ==
  \/ Start
  \/ Len(rag.documents) < MaxDocuments /\ CallAddDocument("g1", {"d1"}, { <<"a">> })
  \/ RagLock("g1")
  \/ EmbedChunk("g1")
  \/ AddReturn("g1")
  \/ RagReturn("g1")
  \/ \E r \in {"r1"} :
       \/ ChatWithStoredRAG(r)
       \/ Serve(r)
       \/ ServeTools(r, MaxConcurrentToolCalls)

SpecRagChat == Init /\ [][NextRagChat]_vars

\* one request, which may name a model, served with tool calls
NextModel ==
  \/ Start
  \/ \E r \in {"r1"} :
       \/ ChatNaming(r, RequestModels)
       \/ Serve(r)
       \/ ServeTools(r, MaxToolCalls)

SpecModel == Init /\ [][NextModel]_vars

\* goroutines that call Register, Get, List and Count on a new registry
NextRegistry ==
  \E g \in Callers :
    \/ CallRegister(g)
    \/ CallRead(g)
    \/ Lock(g)
    \/ RLock(g)
    \/ DoRegister(g)
    \/ DoRead(g)
    \/ Unlock(g)

SpecRegistry == Init /\ [][NextRegistry]_vars

\* the agent is created with one of the configurations, started, used by
\* goroutines that run tool executors, and stopped
InitManager == \E cfgs \in ConfigInputs : New(cfgs)

NextManager ==
  \/ Start
  \/ \E g \in ToolCallers :
       \/ CallExecute(g)
       \/ ClientRLock(g)
       \/ LookupClient(g)
       \/ Respond(g)
       \/ Return(g)
  \/ StopCall
  \/ StopLock
  \/ CloseSession
  \/ KillProcess
  \/ StopReturn

SpecManager == InitManager /\ [][NextManager]_vars

\* two enabled sources configured under one name, and a disabled one
SameName ==
  << [Name |-> "fs",  Enabled |-> TRUE,  Tools |-> <<"list_directory", "read_file">>],
     [Name |-> "fs",  Enabled |-> TRUE,  Tools |-> <<"git_log">>],
     [Name |-> "off", Enabled |-> FALSE, Tools |-> <<"write_file">>] >>

\* the agent is started on a configuration and stopped, no call in between
InitStop == \E cfgs \in ConfigInputs \cup {SameName} : New(cfgs)

NextStop ==
  \/ Start
  \/ StopCall
  \/ StopLock
  \/ CloseSession
  \/ KillProcess
  \/ StopReturn

SpecStop == InitStop /\ [][NextStop]_vars

-----------------------------------------------------------------------------
(* Observations used by the properties *)

\* the messages of the conversation a request works on
History(r) == IF chat[r].conv = 0 THEN << >> ELSE heap[chat[r].conv].messages

\* the messages of `msgs` that request r appended
By(r, msgs) == SelectSeq(msgs, LAMBDA m : m.tag[1] = r)

\* the assistant messages request r appended to its conversation
AssistantBy(r) == SelectSeq(History(r), LAMBDA m : m.tag[1] = r /\ m.Role = "assistant")

\* the tool messages request r appended to its conversation
ToolBy(r) == SelectSeq(History(r), LAMBDA m : m.tag[1] = r /\ m.Role = "tool")

RECURSIVE SumCalls(_)
\* the number of tool calls in a sequence of assistant messages
SumCalls(ms) == IF ms = << >> THEN 0 ELSE Len(Head(ms).ToolCalls) + SumCalls(Tail(ms))

CapError == "max iterations reached"

ModelError == "ollama chat failed: connection refused"

-----------------------------------------------------------------------------
(* C1: when the first reply of the model to a request carries no tool call,  *)
(* the request has ended successfully after exactly one model call, it has   *)
(* appended exactly one assistant message (after its user message), and it   *)
(* returns that reply's text with an empty tool-call trace.                  *)
C1_NoToolCallEndsAfterOneRoundTrip ==
  \A r \in Requests :
    LET as == AssistantBy(r) IN
    (Len(as) >= 1 /\ as[1].ToolCalls = << >>) =>
      /\ chat[r].pc = "done"
      /\ chat[r].err = ""
      /\ chat[r].i = 1
      /\ Len(as) = 1
      /\ Len(By(r, History(r))) = 2
      /\ chat[r].out.Response = as[1].Content
      /\ chat[r].out.ToolCalls = << >>

\* a request answered without tool calls in a conversation another request also uses
C1_Witness ==
  \E r \in Requests :
    /\ Len(AssistantBy(r)) = 1
    /\ AssistantBy(r)[1].ToolCalls = << >>
    /\ chat[r].pc = "done"
    /\ Len(History(r)) > 2

CallOf(as, m) == as[m.tag[2]].ToolCalls[m.tag[3]]

\* the tool call request r is executing or has just executed
CurrentCall(r) == chat[r].resp.ToolCalls[chat[r].tc]

\* <<round, index>> of every tool call of the assistant messages `as`, in order
RECURSIVE CallOrder(_)
CallOrder(as) ==
  IF as = << >> THEN << >>
  ELSE [j \in 1..Len(Head(as).ToolCalls) |-> <<Head(as).tag[2], j>>] \o CallOrder(Tail(as))

Front(q) == SubSeq(q, 1, Len(q) - 1)

Last(q) == q[Len(q)]

(* C4: a failing tool call (unknown tool, or an executor that returns an     *)
(* error) never ends the request: its result is the string "Error: ..." ,    *)
(* appended as a tool message and recorded in the trace; the loop then goes  *)
(* on with the next call of the batch, or with the next model call.          *)
C4_FailedCallsRecorded ==
  \A r \in Requests :
    LET as == AssistantBy(r)
        tb == ToolBy(r) IN
    /\ chat[r].pc = "failed" => chat[r].err \in {CapError, ModelError}
    /\ Len(chat[r].toolCalls) = Len(tb)
    /\ \A k \in 1..Len(tb) :
         LET m  == tb[k]
             tc == CallOf(as, m)
             e  == executeToolCall(tools, clients, tc) IN
         e.err # "" =>
           /\ m.Content = "Error: " \o e.err
           /\ chat[r].toolCalls[k] =
                [Tool |-> tc.Name, Arguments |-> tc.Arguments, Result |-> m.Content]

C4_LoopGoesOn ==
  \A r \in Requests :
    /\ ( /\ chat[r].pc = "append"
         /\ chat'[r] # chat[r]
         /\ executeToolCall(tools, clients, CurrentCall(r)).err # "" ) =>
         /\ Last(History(r)') =
              Message("tool",
                      "Error: " \o executeToolCall(tools, clients, CurrentCall(r)).err,
                      << >>, <<r, chat[r].i, chat[r].tc>>)
         /\ chat'[r].pc = IF chat[r].tc < Len(chat[r].resp.ToolCalls) THEN "exec" ELSE "loop"
         /\ chat'[r].pc = "exec" => chat'[r].tc = chat[r].tc + 1
    /\ (chat[r].pc = "loop" /\ chat[r].i < 100 /\ chat'[r] # chat[r]) => chat'[r].pc = "await"

C4_ToolFailureNeverAborts == []C4_FailedCallsRecorded /\ [][C4_LoopGoesOn]_vars

\* the first call of a batch failed in its executor, the second one ran, and the
\* next model call has been issued
C4_Witness ==
  \E r \in Requests :
    /\ chat[r].pc = "await"
    /\ chat[r].i = 2
    /\ Len(ToolBy(r)) = 2
    /\ ToolBy(r)[1].Content = "Error: call tool failed: file not found"
    /\ ToolBy(r)[2].tag = <<r, 1, 2>>

\* an unknown tool: the error string is in the history and the loop went on
C4_WitnessNotFound ==
  \E r \in Requests :
    /\ chat[r].pc = "await"
    /\ chat[r].i = 2
    /\ ToolBy(r)[1].Content = "Error: tool not found: read_file"

(* C5: the tool calls of a reply run one at a time in the order the model    *)
(* gave them, and the tool message of a call is in the conversation before   *)
(* the next call starts: the calls executed so far are a prefix of the calls *)
(* in reply order, and the tool messages are those calls' results, in the    *)
(* same order, all but the one whose result is still to be appended.         *)
C5_ToolCallsInOrder ==
  \A r \in Requests :
    LET ex == chat[r].executed
        as == AssistantBy(r)
        tb == ToolBy(r) IN
    /\ IsPrefix(ex, CallOrder(as))
    /\ [k \in 1..Len(tb) |-> <<tb[k].tag[2], tb[k].tag[3]>>]
         = IF chat[r].pc = "append" THEN Front(ex) ELSE ex
    /\ \A k \in 1..Len(tb) :
         tb[k].Content = ToolResult(tools, clients, CallOf(as, tb[k]))
    /\ chat[r].pc = "exec" /\ chat[r].tc > 1 =>
         Last(History(r)).tag = <<r, chat[r].i, chat[r].tc - 1>>

\* the second call of a batch is about to run and the first one's result is appended
C5_Witness ==
  \E r \in Requests :
    /\ chat[r].pc = "exec"
    /\ chat[r].tc = 2
    /\ Last(History(r)).Role = "tool"
    /\ Last(History(r)).tag = <<r, chat[r].i, 1>>
    /\ Last(History(r)).Content = chat[r].result

(* C6: in the messages of every model call of a request, each earlier        *)
(* assistant message of that request with k tool calls is followed by its k  *)
(* tool messages, in call order: among the messages of the request that are  *)
(* sent, they are the k messages right after it.                             *)
C6_ModelCallAfterWholeBatch ==
  \A r \in Requests :
    chat[r].pc = "await" =>
      LET ms == By(r, chat[r].sent.Messages) IN
      \A p \in 1..Len(ms) :
        ms[p].Role = "assistant" =>
          \A j \in 1..Len(ms[p].ToolCalls) :
            /\ p + j <= Len(ms)
            /\ ms[p + j].Role = "tool"
            /\ ms[p + j].tag = <<r, ms[p].tag[2], j>>

\* a model call whose messages hold an earlier reply with two tool calls
C6_Witness ==
  \E r \in Requests :
    /\ chat[r].pc = "await"
    /\ chat[r].i >= 3
    /\ \E p \in 1..Len(chat[r].sent.Messages) :
         /\ chat[r].sent.Messages[p].tag[1] = r
         /\ Len(chat[r].sent.Messages[p].ToolCalls) = 2

(* C7: every model call sends the whole history of the conversation as it is *)
(* at the call, and one descriptor for every tool of the registry.           *)
C7_SendsAll ==
  \A r \in Requests :
    (chat[r].pc = "loop" /\ chat'[r].pc = "await") =>
      /\ chat'[r].sent.Messages = heap[chat[r].conv].messages
      /\ { d.Name : d \in chat'[r].sent.Tools } = DOMAIN tools
      /\ Cardinality(chat'[r].sent.Tools) = Count(tools)
      /\ \A d \in chat'[r].sent.Tools : d = MCPToolToOllamaTool(tools[d.Name].MCPTool)

C8_Grows ==
  /\ Len(heap) <= Len(heap')
  /\ \A c \in 1..Len(heap) :
       /\ heap'[c].ID = heap[c].ID
       /\ IsPrefix(heap[c].messages, heap'[c].messages)

C8_AppendOnly == [][C8_Grows]_vars

\* a conversation two requests appended to, one of them with retrieval context
\* and one of them failed
C8_Witness ==
  \E c \in 1..Len(heap) :
    /\ Len(heap[c].messages) >= 4
    /\ \E p, q \in 1..Len(heap[c].messages) :
         /\ heap[c].messages[p].tag[1] # heap[c].messages[q].tag[1]
         /\ heap[c].messages[p].Content = "ctx" \o RagSeparator \o "hi"
    /\ \E r \in Requests : chat[r].pc = "failed" /\ chat[r].conv = c

(* C9: requests naming the same new conversation id all work on one          *)
(* Conversation: there is one object per id, and every object that holds     *)
(* messages is the one the store maps its id to (no appended message is out  *)
(* of reach of a later Chat with that id).                                   *)
C9_OneConversationPerId ==
  /\ \A c, d \in 1..Len(heap) : heap[c].ID = heap[d].ID => c = d
  /\ \A c \in 1..Len(heap) :
       heap[c].messages # << >> => conversations[heap[c].ID] = c

(* C10: a successful Chat returns the id it used (the request's id, or a     *)
(* generated non-empty one), and a Chat that comes later with the returned   *)
(* id sends the model all messages of the earlier request, followed by its   *)
(* own user message.                                                         *)
C10_ReturnedIdContinues ==
  \A r \in Requests :
    chat[r].pc = "done" =>
      /\ chat[r].out.ConversationID # ""
      /\ chat[r].out.ConversationID = chat[r].id
      /\ chat[r].req.ConversationID # "" => chat[r].id = chat[r].req.ConversationID
      /\ chat[r].req.ConversationID = "" => chat[r].id \in Range(UUIDs)
      /\ \A q \in Requests :
           ( /\ r \in chat[q].after
             /\ chat[q].req.ConversationID = chat[r].out.ConversationID
             /\ chat[q].i >= 1 ) =>
             LET ms == chat[q].sent.Messages IN
             /\ By(r, ms) = By(r, History(r))
             /\ \E p \in 1..Len(ms) :
                  /\ ms[p].tag = <<q, 0, 0>>
                  /\ \A n \in 1..Len(ms) : ms[n].tag[1] = r => n < p

\* C10 without C9's race: while no id has two Conversation objects, the returned
\* id does continue the conversation
C10_ContinuesWithoutRace ==
  (\A c, d \in 1..Len(heap) : heap[c].ID = heap[d].ID => c = d) => C10_ReturnedIdContinues

(* C11: when a model call fails the request ends at once with a failure: it  *)
(* returns no response and takes no further step (no model call, no tool     *)
(* call, no message), and what it appended before (its user message, the     *)
(* assistant message of every earlier round and one tool message per call)   *)
(* is and remains in its conversation.                                       *)
C11_FailedAtOnce ==
  \A r \in Requests :
    chat[r].err = ModelError =>
      LET as == AssistantBy(r)
          tb == ToolBy(r)
          h  == By(r, History(r)) IN
      /\ chat[r].pc = "failed"
      /\ chat[r].out = Idle.out
      /\ chat[r].i = Len(as) + 1
      /\ \A k \in 1..Len(as) : as[k].ToolCalls # << >>
      /\ Len(chat[r].executed) = SumCalls(as)
      /\ Len(tb) = SumCalls(as)
      /\ Len(h) = 1 + Len(as) + SumCalls(as)
      /\ h[1] = Message("user", chat[r].userMessage, << >>, <<r, 0, 0>>)

C11_NothingAfterFailure ==
  \A r \in Requests :
    /\ (chat[r].pc = "await" /\ chat'[r].err = ModelError) =>
         /\ chat'[r].pc = "failed"
         /\ heap' = heap
         /\ conversations' = conversations
    /\ chat[r].err = ModelError =>
         /\ chat'[r] = chat[r]
         /\ By(r, History(r)') = By(r, History(r))

C11_ModelFailureEndsRequest == []C11_FailedAtOnce /\ [][C11_NothingAfterFailure]_vars

\* a model call failed in the second round, after a tool round, in a conversation
\* that another request went on writing to
C11_Witness ==
  \E r \in Requests :
    /\ chat[r].err = ModelError
    /\ chat[r].i = 2
    /\ Len(ToolBy(r)) = 1
    /\ Last(History(r)).tag[1] # r

(* C12: a request that fails (model error or iteration cap) changes no       *)
(* conversation but its own and leaves the tool registry alone: each of its  *)
(* steps changes only its own locals, the Conversation with its id and the   *)
(* store entry of its id, and the failing step changes nothing shared.  A    *)
(* request on another id is sent, and holds in its conversation, only        *)
(* messages of requests on its own id, whatever the failed request did.      *)
C12_StepFrame ==
  \A r \in Requests :
    chat'[r] # chat[r] =>
      /\ tools' = tools
      /\ clients' = clients
      /\ \A q \in Requests \ {r} : chat'[q] = chat[q]
      /\ \A c \in 1..Len(heap) : heap[c].ID # chat'[r].id => heap'[c] = heap[c]
      /\ \A id \in DOMAIN conversations :
           id # chat'[r].id => id \in DOMAIN conversations' /\ conversations'[id] = conversations[id]
      /\ \A id \in DOMAIN conversations' : id # chat'[r].id => id \in DOMAIN conversations
      /\ (chat'[r].pc = "failed") =>
           /\ heap' = heap
           /\ conversations' = conversations
           /\ nGen' = nGen

C12_OthersUntouched ==
  \A q \in Requests :
    /\ \A k \in 1..Len(History(q)) : chat[History(q)[k].tag[1]].id = chat[q].id
    /\ \A k \in 1..Len(chat[q].sent.Messages) :
         chat[chat[q].sent.Messages[k].tag[1]].id = chat[q].id
    /\ (chat[q].pc = "done" /\ \A r \in Requests \ {q} : chat[r].id # chat[q].id) =>
         /\ chat[q].sent.Messages = Front(History(q))
         /\ By(q, History(q)) = History(q)
         /\ chat[q].out = [Response |-> Last(History(q)).Content,
                           ToolCalls |-> chat[q].toolCalls,
                           ConversationID |-> chat[q].id]
         /\ conversations[chat[q].id] = chat[q].conv

C12_FailureTouchesNothingElse == []C12_OthersUntouched /\ [][C12_StepFrame]_vars

\* a request failed at the cap while a request on another id was being served,
\* and that one completed
C12_Witness ==
  /\ chat["r1"].err = CapError
  /\ chat["r2"].pc = "done"
  /\ chat["r2"].id # chat["r1"].id
  /\ "r1" \notin chat["r2"].after

\* a request on another id that came after a model-call failure, and completed
C12_WitnessLater ==
  /\ chat["r1"].err = ModelError
  /\ chat["r2"].pc = "done"
  /\ chat["r2"].id # chat["r1"].id
  /\ "r1" \in chat["r2"].after

\* the names Register has been called with, and the last ToolInfo written for one
RegisteredNames == { registered[i].Name : i \in 1..Len(registered) }

LatestRegistered(name) ==
  registered[CHOOSE i \in 1..Len(registered) :
               /\ registered[i].Name = name
               /\ \A j \in (i + 1)..Len(registered) : registered[j].Name # name]

(* C13: after any sequence of Register calls the registry has one entry for  *)
(* each distinct name, Get(name) is the ToolInfo of the latest Register with *)
(* that name and nil for a name never registered, Count is the number of     *)
(* distinct names and List is exactly those entries.                         *)
C13_RegistryHoldsLatest ==
  /\ DOMAIN tools = RegisteredNames
  /\ \A n \in ToolNames :
       Get(tools, n) = IF n \in RegisteredNames THEN LatestRegistered(n) ELSE Nil
  /\ Count(tools) = Cardinality(RegisteredNames)
  /\ List(tools) = { LatestRegistered(n) : n \in RegisteredNames }
  /\ Cardinality(List(tools)) = Cardinality(RegisteredNames)

\* a name registered twice with different ToolInfos, and another name
C13_Witness ==
  /\ Len(registered) = 3
  /\ \E i, j \in 1..3 :
       i < j /\ registered[i].Name = registered[j].Name /\ registered[i] # registered[j]
  /\ Count(tools) = 2

(* C14: under any interleaving of Register, Get, List and Count a writer is  *)
(* alone in the registry and a reader returns what the map holds; a Register *)
(* that returns has written its entry, so no registration is lost (once no   *)
(* Register is in progress every registered name is found and Count is the   *)
(* number of distinct names); a reader waits only for a writer that is       *)
(* inside or waiting, never for another reader.                              *)
C14_WritersExcluded ==
  LET readers == Inside({"Get", "List", "Count"})
      writers == Inside({"Register"}) IN
  /\ Cardinality(writers) <= 1
  /\ writers # {} => readers = {}
  /\ \A g \in readers :
       procs[g].pc = "unlock" =>
         procs[g].ret = IF procs[g].op = "Get" THEN Get(tools, procs[g].arg)
                        ELSE IF procs[g].op = "List" THEN List(tools)
                        ELSE Count(tools)
  /\ (\A g \in Callers : procs[g].op # "Register") =>
       /\ \A i \in 1..Len(registered) : Get(tools, registered[i].Name) # Nil
       /\ Count(tools) = Cardinality(RegisteredNames)
  /\ \A g \in Callers :
       ( /\ procs[g].op \in {"Get", "List", "Count"}
         /\ procs[g].pc = "lock"
         /\ mu.writer = ""
         /\ mu.pending = {} ) => ENABLED RLock(g)

C14_RegisterWrites ==
  \A g \in Callers :
    (procs[g].op = "Register" /\ procs'[g].pc = "idle") =>
      /\ procs[g].arg \in Range(registered)
      /\ Get(tools', procs[g].arg.Name) # Nil

C14_ConcurrentRegistrySafe == []C14_WritersExcluded /\ [][C14_RegisterWrites]_vars

\* two readers are inside together while a Register waits for them
C14_Witness ==
  /\ Cardinality(Inside({"Get", "List", "Count"})) = 2
  /\ mu.pending # {}
  /\ Len(registered) >= 1

\* the sources that are connected and advertise `tool`
Advertisers(tool) == { n \in DOMAIN clients : tool \in Range(clients[n].Tools) }

(* C15: a failure to launch, connect to or list one enabled source skips     *)
(* that source only: Start succeeds, every other enabled source is connected *)
(* and each tool it advertises is in the registry, bound to a connected      *)
(* source that advertises it; a disabled source is never launched and        *)
(* contributes nothing.  Start fails only when the model service is down,    *)
(* before any source is launched.                                            *)
C15_StartBestEffort ==
  /\ phase = "exited" => launched = NoFn /\ clients = NoFn
  /\ phase \in {"running", "stopped"} =>
       /\ DOMAIN launched = EnabledNames(configs)
       /\ DOMAIN clients = { n \in DOMAIN launched : launched[n] }
       /\ \A i \in DOMAIN configs :
            configs[i].Name \in DOMAIN clients => clients[configs[i].Name].Tools = configs[i].Tools
       /\ \A n \in DOMAIN clients : \A tool \in Range(clients[n].Tools) :
            /\ tool \in DOMAIN tools
            /\ tools[tool].Name = tool
            /\ tools[tool].Executor.toolName = tool
            /\ tools[tool].Executor.serverName \in Advertisers(tool)
            /\ tools[tool].Source = "mcp:" \o tools[tool].Executor.serverName
       /\ \A tool \in DOMAIN tools : Advertisers(tool) # {}
       /\ \A i \in DOMAIN configs :
            ~configs[i].Enabled =>
              /\ configs[i].Name \notin DOMAIN launched
              /\ configs[i].Name \notin DOMAIN clients
              /\ \A tool \in DOMAIN tools : tools[tool].Executor.serverName # configs[i].Name

\* the first source failed, the second one is connected and both its tools are
\* in the registry
C15_Witness ==
  /\ phase = "running"
  /\ configs = TwoSources
  /\ ~launched["fs"]
  /\ launched["git"]
  /\ DOMAIN tools = {"git_log", "read_file"}

(* C16: a remote tool execution returns the text of the first text item of   *)
(* the response wherever that item stands, and an error exactly when the     *)
(* response has no text item.                                                *)
C16_FirstTextItemAnywhere ==
  \A g \in ToolCallers :
    (procs[g].pc = "returned" /\ procs[g].ret.resp.err = "") =>
      LET texts == SelectSeq(procs[g].ret.resp.Content, LAMBDA c : c.type = "text") IN
      IF texts # << >>
      THEN procs[g].ret.out = [result |-> texts[1].Text, err |-> ""]
      ELSE procs[g].ret.out.err # ""

\* what Execute does: only the first item of the response is looked at
C16_FirstItemOnly ==
  \A g \in ToolCallers :
    (procs[g].pc = "returned" /\ procs[g].ret.resp.err = "") =>
      LET content == procs[g].ret.resp.Content IN
      IF Len(content) > 0 /\ content[1].type = "text"
      THEN procs[g].ret.out = [result |-> content[1].Text, err |-> ""]
      ELSE procs[g].ret.out = [result |-> "", err |-> "no content in result"]

\* a response whose text item is the second one, answered with an error
C16_Witness ==
  \E g \in ToolCallers :
    /\ procs[g].pc = "returned"
    /\ procs[g].ret.resp.err = ""
    /\ Len(procs[g].ret.resp.Content) = 2
    /\ procs[g].ret.resp.Content[2].type = "text"
    /\ procs[g].ret.out.err = "no content in result"

(* C17: on shutdown the session of each connected source is closed before    *)
(* its subprocess is killed, and Stop returns nil whatever Close and Kill     *)
(* return; when it has returned every connected source was closed and killed.*)
C17_CloseThenKillNeverFails ==
  /\ \A i \in 1..Len(stop.log) :
       stop.log[i].op = "kill" =>
         \E j \in 1..(i - 1) : stop.log[j].op = "close" /\ stop.log[j].name = stop.log[i].name
  /\ \A i, j \in 1..Len(stop.log) :
       (stop.log[i].op = stop.log[j].op /\ stop.log[i].name = stop.log[j].name) => i = j
  /\ stop.ret \in {"-", "nil"}
  /\ stop.pc = "returned" =>
       /\ stop.ret = "nil"
       /\ phase = "stopped"
       /\ clientMu.writer = ""
       /\ Len(stop.log) = 2 * Cardinality(DOMAIN clients)
       /\ \A n \in DOMAIN clients : clients[n].Session = "closed" /\ clients[n].Cmd = "killed"

\* Stop returned after a Close and a Kill failed, with two sources connected
C17_Witness ==
  /\ stop.pc = "returned"
  /\ Cardinality(DOMAIN clients) = 2
  /\ \E i, j \in 1..Len(stop.log) :
       /\ stop.log[i].op = "close" /\ stop.log[i].err # ""
       /\ stop.log[j].op = "kill"  /\ stop.log[j].err # ""

(* C18: CallTool holds the manager's lock only for the lookup of the source, *)
(* never while it waits for the response; so a call in flight, on whatever   *)
(* source, keeps no other call from starting (a call waits for the lock only *)
(* while Stop holds or awaits it) or from completing.                        *)
C18_NoLockWhileInFlight ==
  \A g \in ToolCallers :
    procs[g].op = "Execute" =>
      /\ procs[g].pc \in {"inflight", "returned"} => g \notin clientMu.readers
      /\ (procs[g].pc = "lock" /\ clientMu.writer = "" /\ clientMu.pending = {}) =>
           ENABLED ClientRLock(g)
      /\ procs[g].pc = "in" => ENABLED LookupClient(g)
      /\ procs[g].pc = "inflight" => ENABLED Respond(g)
      /\ (stop.pc = "lock" /\ \A h \in ToolCallers : procs[h].pc # "in") => ENABLED StopLock

\* a call on one source has completed while a call on another one is in flight
C18_Witness ==
  \E g, h \in ToolCallers :
    /\ procs[g].pc = "inflight"
    /\ procs[g].arg.e.serverName = "fs"
    /\ procs[h].pc = "returned"
    /\ procs[h].arg.e.serverName = "git"
    /\ procs[h].ret.out = [result |-> "commit 1", err |-> ""]

(* C19: a cancellation reaches the model call or tool call in flight and the *)
(* request ends in failure; and the cancelled turn loop changes nothing      *)
(* afterwards: no tool message is appended for a tool call that was in       *)
(* flight when the request was cancelled.                                    *)
C19_CancelledLoopAppendsNothing ==
  \A r \in Requests :
    chat[r].ctx # "" =>
      /\ chat[r].pc # "done"
      /\ chat[r].cancelledAt[1] = "inflight" =>
           \A k \in 1..Len(History(r)) :
             History(r)[k].tag # <<r, chat[r].cancelledAt[2], chat[r].cancelledAt[3]>>

\* the part of C19 that holds: a cancelled request never returns a response, and
\* once its loop has reached the next model call it has failed with the
\* context's error
C19_CancelledRequestFails ==
  \A r \in Requests :
    chat[r].ctx # "" =>
      /\ chat[r].pc # "done"
      /\ chat[r].pc = "failed" => chat[r].err \in {"ollama chat failed: " \o chat[r].ctx, ModelError}

\* a tool call was in flight at the cancellation, and its tool message is the
\* last one of the conversation of the failed request
C19_Witness ==
  \E r \in Requests :
    /\ chat[r].pc = "failed"
    /\ chat[r].ctx # ""
    /\ chat[r].cancelledAt[1] = "inflight"
    /\ Last(History(r)).Role = "tool"
    /\ Last(History(r)).tag = <<r, chat[r].cancelledAt[2], chat[r].cancelledAt[3]>>

\* the parameter set of a descriptor without parameters
EmptyParameters ==
  [Type |-> "object", Required |-> << >>, Properties |-> [made |-> FALSE, props |-> NoFn]]

(* C20: the converter never fails: every call returns a descriptor of type   *)
(* "function" with the tool's name and description and parameters of type    *)
(* "object"; for a declared schema that is not an object (absent, a scalar,  *)
(* a list) the parameter set is empty: no required names and no properties.  *)
C20_NonObjectSchemaGivesEmptyParameters ==
  \A g \in Converters :
    /\ (procs[g].op = "Convert" /\ procs[g].pc = "call") => ENABLED Convert(g)
    /\ (procs[g].op = "Convert" /\ procs[g].pc = "returned") =>
         LET tool == procs[g].arg
             d    == procs[g].ret IN
         /\ d.Type = "function"
         /\ d.Name = tool.Name
         /\ d.Description = tool.Description
         /\ d.Parameters.Type = "object"
         /\ tool.InputSchema.kind # "map" =>
              /\ d.Parameters = EmptyParameters
              /\ Len(d.Parameters.Required) = 0
              /\ DOMAIN d.Parameters.Properties.props = {}

\* a tool whose declared schema is a list has been converted
C20_Witness ==
  \E g \in Converters :
    /\ procs[g].op = "Convert"
    /\ procs[g].pc = "returned"
    /\ procs[g].arg.InputSchema.kind = "list"
    /\ procs[g].ret.Parameters = EmptyParameters

\* the conversions of an object schema that have returned
ConvertedObjects ==
  { g \in Converters : /\ procs[g].op = "Convert"
                       /\ procs[g].pc = "returned"
                       /\ procs[g].arg.InputSchema.kind = "map" }

\* out holds the strings among the entries of list q, in the order of q
StringsInOrder(out, q) ==
  LET idx == { i \in 1..Len(q) : q[i].kind = "string" } IN
  /\ Len(out) = Cardinality(idx)
  /\ \A i \in idx : out[Cardinality({ j \in idx : j <= i })] = q[i].v

\* the descriptor's required names are the string entries of the schema's
\* required list, whether or not a property of that name exists
RequiredAsDeclared(g) ==
  LET req == Field(procs[g].arg.InputSchema, "required")
      out == procs[g].ret.Parameters.Required IN
  IF req.kind = "list" THEN StringsInOrder(out, req.v) ELSE out = << >>

\* an output property carries type, description and enum where the source
\* property has them (a string, a string, a list), and nothing else
PropertyAsDeclared(src, out) ==
  /\ DOMAIN out = {"Type", "Description", "Enum"}
  /\ out.Type = IF "type" \in DOMAIN src.v /\ src.v["type"].kind = "string"
                THEN <<src.v["type"].v>> ELSE << >>
  /\ out.Description = IF "description" \in DOMAIN src.v /\ src.v["description"].kind = "string"
                       THEN src.v["description"].v ELSE ""
  /\ out.Enum = IF "enum" \in DOMAIN src.v /\ src.v["enum"].kind = "list"
                THEN src.v["enum"].v ELSE << >>

(* C21 as stated: for an object schema the descriptor's required names are   *)
(* exactly the string entries of the schema's required list in order, and    *)
(* there is one output property for each schema property, carrying only      *)
(* those of type, description and enum that the source property has.         *)
C21_OnePropertyPerSchemaProperty ==
  \A g \in ConvertedObjects :
    LET props == Field(procs[g].arg.InputSchema, "properties")
        out   == procs[g].ret.Parameters.Properties IN
    /\ RequiredAsDeclared(g)
    /\ props.kind = "map" =>
         /\ DOMAIN out.props = DOMAIN props.v
         /\ \A n \in DOMAIN out.props :
              props.v[n].kind = "map" => PropertyAsDeclared(props.v[n], out.props[n])

(* C21 amended: for an object schema the descriptor's required names are     *)
(* exactly the string entries of the schema's required list in order, and    *)
(* there is one output property for each schema property whose value is an   *)
(* object (a property with any other value is left out), carrying only those *)
(* of type, description and enum that the source property has, with no       *)
(* default in place of a missing one; required names are not checked against *)
(* the properties.                                                           *)
C21_OnePropertyPerObjectProperty ==
  \A g \in ConvertedObjects :
    LET props == Field(procs[g].arg.InputSchema, "properties")
        out   == procs[g].ret.Parameters.Properties IN
    /\ RequiredAsDeclared(g)
    /\ out.made = (props.kind = "map")
    /\ props.kind # "map" => DOMAIN out.props = {}
    /\ props.kind = "map" =>
         /\ DOMAIN out.props = { n \in DOMAIN props.v : props.v[n].kind = "map" }
         /\ \A n \in DOMAIN out.props : PropertyAsDeclared(props.v[n], out.props[n])

\* a conversion that kept a required name without a property ("ghost"),
\* dropped the non-string entry of the required list, and returned a property
\* without type and description for a source property that has neither
C21_Witness ==
  \E g \in ConvertedObjects :
    LET schema == procs[g].arg.InputSchema
        d      == procs[g].ret.Parameters IN
    /\ Field(schema, "required").kind = "list"
    /\ Len(Field(schema, "required").v) = 3
    /\ d.Required = <<"path", "ghost">>
    /\ Field(schema, "properties").kind = "map"
    /\ "ghost" \notin DOMAIN d.Properties.props
    /\ \E n \in DOMAIN d.Properties.props :
         /\ "type" \notin DOMAIN Field(schema, "properties").v[n].v
         /\ d.Properties.props[n] = [Type |-> << >>, Description |-> "", Enum |-> << >>]

\* the AddDocument calls that have returned without error
AddedDocuments ==
  { g \in Callers : procs[g].op = "AddDocument" /\ procs[g].pc = "returned" /\ procs[g].ret = "nil" }

\* the records an add call has appended (while nobody else has written since)
StoredBy(g) == SubSeq(rag.documents, procs[g].loc.base + 1, Len(rag.documents))

(* C22: for every text with at most chunkSize characters, AddDocument stores *)
(* exactly one chunk, whose content is the input with surrounding whitespace *)
(* trimmed.                                                                  *)
C22_ShortTextOneTrimmedChunk ==
  \A g \in AddedDocuments :
    Len(procs[g].arg.content) <= EffectiveChunkSize(rag.chunkSize) =>
      /\ Len(StoredBy(g)) = 1
      /\ StoredBy(g)[1].Content = TrimSpace(procs[g].arg.content)

\* what AddDocument does with such a text: one chunk, the input as it is
C22_ShortTextStoredWhole ==
  \A g \in AddedDocuments :
    Len(procs[g].arg.content) <= EffectiveChunkSize(rag.chunkSize) =>
      /\ Len(StoredBy(g)) = 1
      /\ StoredBy(g)[1].Content = procs[g].arg.content

\* the AddDocument calls that cut their text into windows, under a
\* configuration with 0 <= chunkOverlap < chunkSize
Chunked ==
  { g \in Callers : /\ procs[g].op = "AddDocument"
                    /\ procs[g].pc \in {"in", "returned"}
                    /\ Len(procs[g].loc.windows) > 0
                    /\ rag.chunkSize > 0
                    /\ rag.chunkOverlap >= 0
                    /\ rag.chunkOverlap < rag.chunkSize }

\* the first window starts at 0, the last ends at the end of the text, and
\* two consecutive windows share at most chunkOverlap characters
WindowsAnchoredAndOverlapBounded(g) ==
  LET w == procs[g].loc.windows IN
  /\ w[1].start = 0
  /\ w[Len(w)].end = Len(procs[g].arg.content)
  /\ \A k \in 1..(Len(w) - 1) : w[k].end - w[k + 1].start <= rag.chunkOverlap

(* C23: for a text longer than chunkSize and an overlap O < chunkSize, the   *)
(* chunk windows [start, end), in order, leave no gap (the first starts at   *)
(* 0, each next one starts at or before the end of the previous one, the     *)
(* last ends at the end of the text) and two consecutive windows share at    *)
(* most O characters.                                                        *)
C23_WindowsCoverWithoutGap ==
  \A g \in Chunked :
    LET w == procs[g].loc.windows IN
    /\ WindowsAnchoredAndOverlapBounded(g)
    /\ \A k \in 1..(Len(w) - 1) : w[k + 1].start <= w[k].end

\* what the chunker does keep: the ends and the bound on the overlap
C23_WindowsOverlapBounded ==
  \A g \in Chunked : WindowsAnchoredAndOverlapBounded(g)

(* C24: every chunk the chunker produces has at most chunkSize characters,   *)
(* wherever the sentence terminators stand, also for a terminator exactly at *)
(* the hard window boundary.                                                 *)
C24_ChunkAtMostChunkSize ==
  \A g \in Callers :
    (procs[g].op = "AddDocument" /\ procs[g].pc \in {"in", "returned"}) =>
      \A k \in 1..Len(procs[g].loc.chunks) :
        Len(procs[g].loc.chunks[k]) <= EffectiveChunkSize(rag.chunkSize)

\* what the chunker does keep: a chunk has at most chunkSize + 1 characters
C24_ChunkAtMostOneMore ==
  \A g \in Callers :
    (procs[g].op = "AddDocument" /\ procs[g].pc \in {"in", "returned"}) =>
      \A k \in 1..Len(procs[g].loc.chunks) :
        Len(procs[g].loc.chunks[k]) <= EffectiveChunkSize(rag.chunkSize) + 1

\* the searches of a collection that is not empty which returned results
Searched ==
  { g \in Callers : /\ procs[g].op = "Search"
                    /\ procs[g].pc = "returned"
                    /\ procs[g].ret.err = ""
                    /\ procs[g].ret.seen # << >> }

(* C25: for every topK >= 0 and every collection that is not empty, a search *)
(* returns exactly min(topK, DocumentCount) results, never more than topK,   *)
(* with scores that do not increase from first to last, each result being a  *)
(* stored chunk.                                                             *)
C25_TopKSortedStored ==
  \A g \in Searched :
    LET res  == procs[g].ret.results
        seen == procs[g].ret.seen
        topK == procs[g].arg.topK IN
    /\ Len(res) = Min(topK, Len(seen))
    /\ Len(res) <= topK
    /\ \A i \in 1..(Len(res) - 1) : ~Greater(res[i + 1].Score, res[i].Score)
    /\ \A i \in 1..Len(res) : \E n \in 1..Len(seen) : res[i].Document = seen[n]

\* a search for one result among several chunks returned a chunk that scores
\* higher than another stored one
C25_Witness ==
  \E g \in Searched :
    /\ procs[g].arg.topK = 1
    /\ Len(procs[g].ret.seen) >= 2
    /\ Len(procs[g].ret.results) = 1
    /\ \E n \in 1..Len(procs[g].ret.seen) :
         Greater(procs[g].ret.results[1].Score,
                 cosineSimilarity(Embed(procs[g].arg.query), procs[g].ret.seen[n].Embedding))

(* C26: the similarity of two vectors of different lengths is exactly 0 and  *)
(* never an error: a search over chunks whose embedding length differs from  *)
(* the query's returns them with score 0; the similarity of a vector that is *)
(* not zero with itself is 1.                                                *)
C26_CosineOfUnequalLengthsAndSelf ==
  \A g \in Callers :
    /\ (procs[g].op = "Search" /\ procs[g].pc = "in") => ENABLED DoSearch(g)
    /\ g \in Searched =>
         LET q == Embed(procs[g].arg.query) IN
         \A i \in 1..Len(procs[g].ret.results) :
           LET r == procs[g].ret.results[i] IN
           /\ Len(r.Document.Embedding) # Len(q) => IsZero(r.Score)
           /\ (r.Document.Embedding = q /\ Dot(q, q) # 0) => IsOne(r.Score)

\* a search returned a chunk whose embedding has another length than the
\* query's, and a chunk whose embedding is the query's with norm above 1
C26_Witness ==
  \E g \in Searched :
    LET q   == Embed(procs[g].arg.query)
        res == procs[g].ret.results IN
    /\ \E i \in 1..Len(res) : Len(res[i].Document.Embedding) # Len(q) /\ IsZero(res[i].Score)
    /\ \E i \in 1..Len(res) :
         res[i].Document.Embedding = q /\ Dot(q, q) > 1 /\ IsOne(res[i].Score)

\* the add calls in progress or returned, and the readers inside the read lock
AddCalls == { g \in Callers : procs[g].op \in {"AddDocument", "AddDocumentWithChunks"} }

Reading == { g \in Callers : procs[g].op \in RagReadOps /\ procs[g].pc = "in" }

Imported ==
  { g \in Callers : /\ procs[g].op = "LoadRAGDocumentsFromDir"
                    /\ procs[g].pc = "returned"
                    /\ procs[g].arg.dir \in DOMAIN FileSystem }

\* a non-directory entry whose name ends in ".md"
IsMarkdownFile(entry) ==
  /\ ~entry.IsDir
  /\ Len(entry.Name) >= 3
  /\ SubSeq(entry.Name, Len(entry.Name) - 2, Len(entry.Name)) = <<".", "m", "d">>

\* the file name without its extension
Stem(entry) == SubSeq(entry.Name, 1, Len(entry.Name) - 3)

Unaugmented ==
  { r \in Requests : /\ chat[r].retrieved.called
                     /\ chat[r].retrieved.err # "" \/ chat[r].retrieved.context = "" }

(* C29: when the retrieval of ChatWithRAG fails (the embedding or the search *)
(* returns an error) or yields no result, the request is not failed by it:   *)
(* exactly one user message, equal to the request's message as it came, is   *)
(* appended, and the turn loop runs as in Chat.                              *)
C29_FailedRetrievalFallsBack ==
  \A r \in Unaugmented :
    LET user == SelectSeq(History(r), LAMBDA m : m.tag = <<r, 0, 0>>) IN
    /\ chat[r].userMessage = chat[r].req.Message
    /\ chat[r].pc \in {"store", "addUser"} => Len(user) = 0
    /\ chat[r].pc \notin {"store", "addUser"} =>
         /\ Len(user) = 1
         /\ user[1].Role = "user"
         /\ user[1].Content = chat[r].req.Message
         /\ chat[r].i >= 1 \/ chat[r].pc = "loop"
    /\ chat[r].pc = "failed" => chat[r].err \in {ModelError, CapError}
    /\ chat[r].pc = "addUser" => ENABLED AddUserMessage(r)
    /\ chat[r].pc = "loop" => ENABLED CallModel(r)

\* a request whose retrieval failed on a collection that holds a document was
\* answered, after a tool call, by the model
C29_Witness ==
  \E r \in Unaugmented :
    /\ chat[r].retrieved.err # ""
    /\ rag.documents # << >>
    /\ chat[r].pc = "done"
    /\ Len(chat[r].out.ToolCalls) = 1

\* a request whose retrieval found nothing in the empty collection was answered
C29_WitnessNoResult ==
  \E r \in Unaugmented :
    /\ chat[r].retrieved.err = ""
    /\ rag.documents = << >>
    /\ chat[r].pc = "done"

(* C30: the tool_calls trace of a request that returned without error has    *)
(* exactly one entry per tool call the request executed, in the order of     *)
(* execution over all rounds; each entry names the call's tool and arguments *)
(* and its result is the content of the tool message appended for that call; *)
(* the response is the content of the last reply of the model, the only one  *)
(* without tool calls.                                                       *)
C30_TraceIsTheExecutedCalls ==
  \A r \in Requests :
    chat[r].pc = "done" =>
      LET trace   == chat[r].out.ToolCalls
          ex      == chat[r].executed
          toolMsg == ToolBy(r)
          reply   == AssistantBy(r) IN
      /\ Len(trace) = Len(ex)
      /\ Len(toolMsg) = Len(ex)
      /\ \A j \in 1..Len(ex) :
           LET call == reply[ex[j][1]].ToolCalls[ex[j][2]] IN
           /\ reply[ex[j][1]].tag = <<r, ex[j][1], 0>>
           /\ trace[j].Tool = call.Name
           /\ trace[j].Arguments = call.Arguments
           /\ toolMsg[j].tag = <<r, ex[j][1], ex[j][2]>>
           /\ trace[j].Result = toolMsg[j].Content
      /\ Len(reply) >= 1
      /\ chat[r].out.Response = reply[Len(reply)].Content
      /\ \A k \in 1..Len(reply) : (reply[k].ToolCalls = << >>) <=> (k = Len(reply))

\* a request returned after tool calls in two rounds whose results differ
C30_Witness ==
  \E r \in Requests :
    /\ chat[r].pc = "done"
    /\ Len(chat[r].out.ToolCalls) = 2
    /\ chat[r].executed[1][1] # chat[r].executed[2][1]
    /\ chat[r].out.ToolCalls[1].Result # chat[r].out.ToolCalls[2].Result
    /\ chat[r].out.Response = ReplyContent(3)

\* the requests for which a.ollama.Chat has been called at least once
ModelCalled == { r \in Requests : chat[r].i >= 1 }

(* C31: every model call of a request that names a model is made with that  *)
(* model, and every model call of a request that names none is made with    *)
(* the configured default model.                                            *)
C31_ModelCallsUseRequestedModel ==
  \A r \in ModelCalled :
    chat[r].sent.Model = IF chat[r].req.Model = "" THEN DefaultModel ELSE chat[r].req.Model

\* what the code does: every model call carries the model the client was built with
C31_ModelCallsUseConfiguredModel ==
  \A r \in ModelCalled : chat[r].sent.Model = DefaultModel

\* the system messages among the messages of request r's latest model call
SystemSent(r) == SelectSeq(chat[r].sent.Messages, LAMBDA m : m.Role = "system")

(* C32: the configured system prompt is part of what the model receives: the *)
(* messages of every model call of a conversation hold it exactly once, from *)
(* the first call on, and it is not added again on later rounds or requests. *)
C32_SystemPromptSentOnce ==
  \A r \in ModelCalled :
    /\ Len(SystemSent(r)) = 1
    /\ SystemSent(r)[1].Content = SystemPrompt

\* what the code does: no model call is sent a system message
C32_NoSystemMessageSent ==
  \A r \in ModelCalled : Len(SystemSent(r)) = 0

\* the AddDocument calls that have cut their text
Cut == { g \in Callers : procs[g].op = "AddDocument" /\ procs[g].pc \in {"in", "returned"} }

\* every window of g that does not reach the end of the text ends just after
\* the last terminator at an index in from(start)..to(start), or at the hard
\* boundary start + chunkSize when there is none
CutAfterLastTerminator(g, from(_), to(_)) ==
  LET text      == procs[g].arg.content
      chunkSize == EffectiveChunkSize(rag.chunkSize)
      w         == procs[g].loc.windows IN
  \A k \in 1..Len(w) :
    w[k].start + chunkSize < Len(text) =>
      LET found == { i \in from(w[k].start)..to(w[k].start) : text[i + 1] \in Terminators } IN
      w[k].end = IF found # {}
                 THEN (CHOOSE i \in found : \A j \in found : j <= i) + 1
                 ELSE w[k].start + chunkSize

(* C33: a window [start, start+chunkSize) that does not reach the end of the *)
(* text is cut just after the last sentence terminator at an index in        *)
(* [start + chunkSize*4/5, start + chunkSize) when there is one, and at the  *)
(* hard boundary start + chunkSize otherwise: no character outside the       *)
(* window decides the cut.                                                   *)
C33_CutInsideLastFifth ==
  \A g \in Cut :
    CutAfterLastTerminator(g,
      LAMBDA start : start + (EffectiveChunkSize(rag.chunkSize) * 4) \div 5,
      LAMBDA start : start + EffectiveChunkSize(rag.chunkSize) - 1)

\* what the chunker does: the indices it examines are one further on, from
\* start + chunkSize*4/5 + 1 up to start + chunkSize, the first one outside
C33_CutOneFurtherOn ==
  \A g \in Cut :
    CutAfterLastTerminator(g,
      LAMBDA start : start + (EffectiveChunkSize(rag.chunkSize) * 4) \div 5 + 1,
      LAMBDA start : start + EffectiveChunkSize(rag.chunkSize))

(* C34: the chunker terminates on every text under every configuration: the *)
(* start of the window grows by at least 1 at every step, so there are at    *)
(* most as many windows as the text has characters.                          *)
C34_WindowStartStrictlyIncreases ==
  \A g \in Cut :
    LET w == procs[g].loc.windows IN
    /\ \A k \in 1..(Len(w) - 1) : w[k + 1].start >= w[k].start + 1
    /\ \A k \in 1..Len(w) : w[k].start >= 0 /\ w[k].start < Len(procs[g].arg.content)
    /\ Len(w) <= Len(procs[g].arg.content)

\* a text was cut under an overlap of chunkSize - 1 into windows one apart,
\* and another under an overlap above the chunk size
C34_Witness ==
  \E g \in Cut :
    /\ Len(procs[g].loc.windows) >= 3
    /\ rag.chunkOverlap = rag.chunkSize - 1
    /\ \A k \in 1..(Len(procs[g].loc.windows) - 1) :
         procs[g].loc.windows[k + 1].start = procs[g].loc.windows[k].start + 1

C34_WitnessOverlapAboveSize ==
  \E g \in Cut :
    /\ Len(procs[g].loc.windows) >= 2
    /\ rag.chunkOverlap >= EffectiveChunkSize(rag.chunkSize)

\* the chunk size and overlap splitText works with are the configured ones
\* after the two guards, the overlap is below the chunk size, and no step
\* changes the configuration the engine holds
EffectiveParameters ==
  /\ \A g \in Cut :
       /\ procs[g].loc.chunkSize = IF rag.chunkSize <= 0 THEN 500 ELSE rag.chunkSize
       /\ procs[g].loc.chunkOverlap = IF rag.chunkOverlap >= procs[g].loc.chunkSize
                                      THEN procs[g].loc.chunkSize \div 10
                                      ELSE rag.chunkOverlap
       /\ procs[g].loc.chunkOverlap < procs[g].loc.chunkSize
  /\ rag'.chunkSize = rag.chunkSize
  /\ rag'.chunkOverlap = rag.chunkOverlap

(* C35: the chunker works with effective parameters: a configured chunk size *)
(* of 0 or less is replaced by 500, then an overlap of at least the          *)
(* effective chunk size is replaced by a tenth of it (integer division);     *)
(* after the guards 0 <= overlap < chunkSize; the stored configuration is    *)
(* never modified.                                                           *)
C35_EffectiveOverlapWithinZeroAndSize ==
  [][/\ EffectiveParameters
     /\ \A g \in Cut : 0 <= procs[g].loc.chunkOverlap]_vars

\* what the guards do ensure: the overlap is below the chunk size, and it is
\* not negative unless the configured overlap is
C35_EffectiveOverlapBelowSize ==
  [][/\ EffectiveParameters
     /\ \A g \in Cut : rag.chunkOverlap >= 0 => 0 <= procs[g].loc.chunkOverlap]_vars

\* a chunk that is not empty and has no whitespace at either end
Trimmed(chunk) == Len(chunk) > 0 /\ TrimSpace(chunk) = chunk

(* C36: AddDocument never sends to the embedding function and never stores   *)
(* an empty chunk or a chunk with whitespace at its start or end, whatever   *)
(* the text, also the empty text and a text of whitespace alone.             *)
C36_NoEmptyOrUntrimmedChunk ==
  /\ \A g \in Cut : \A k \in 1..Len(procs[g].loc.chunks) : Trimmed(procs[g].loc.chunks[k])
  /\ \A k \in 1..Len(rag.documents) : Trimmed(rag.documents[k].Content)

\* what AddDocument does keep: the chunks of a text longer than the chunk
\* size are trimmed and none is empty
C36_ChunksOfLongTextTrimmed ==
  \A g \in Cut :
    Len(procs[g].arg.content) > procs[g].loc.chunkSize =>
      /\ \A k \in 1..Len(procs[g].loc.chunks) : Trimmed(procs[g].loc.chunks[k])
      /\ procs[g].pc = "returned" =>
           \A k \in 1..Len(rag.documents) : Trimmed(rag.documents[k].Content)

\* the add calls that return nil in this step
AddSucceeds(g) ==
  /\ procs[g].op \in {"AddDocument", "AddDocumentWithChunks"}
  /\ procs[g].pc = "in"
  /\ procs'[g].pc = "returned"
  /\ procs'[g].ret = "nil"

(* C37: a successful AddDocument or AddDocumentWithChunks that yields n      *)
(* chunks has appended exactly n records, keyed <id>_chunk_0 .. <id>_chunk_  *)
(* <n-1> in chunk order, each with the embedding of its own chunk and the    *)
(* document's metadata, so DocumentCount has grown by n; no step changes a   *)
(* record already stored, and only Clear lowers DocumentCount, to 0.         *)
C37_AddAppendsOneRecordPerChunk ==
  [][/\ \A g \in Callers :
          AddSucceeds(g) =>
            LET chunks == procs[g].loc.chunks
                base   == procs[g].loc.base IN
            /\ Len(rag'.documents) = base + Len(chunks)
            /\ \A i \in 0..(Len(chunks) - 1) :
                 rag'.documents[base + i + 1] =
                   [ ID |-> ChunkID(procs[g].arg.id, i), Content |-> chunks[i + 1],
                     Embedding |-> Embed(chunks[i + 1]), Metadata |-> procs[g].arg.metadata ]
     /\ Len(rag'.documents) >= Len(rag.documents) => IsPrefix(rag.documents, rag'.documents)
     /\ Len(rag'.documents) < Len(rag.documents) =>
          /\ rag'.documents = << >>
          /\ \E g \in Callers : procs[g].op = "Clear" /\ procs[g].pc = "in" /\ procs'[g].pc = "returned"
    ]_vars

\* an add of two chunks has returned nil on a collection that held a record,
\* and DocumentCount then read 3
C37_Witness ==
  \E g \in Callers, h \in Callers :
    /\ procs[g].op \in {"AddDocument", "AddDocumentWithChunks"}
    /\ procs[g].pc = "returned"
    /\ procs[g].ret = "nil"
    /\ Len(procs[g].loc.chunks) = 2
    /\ procs[g].loc.base = 1
    /\ procs[h].op = "DocumentCount"
    /\ procs[h].pc = "returned"
    /\ procs[h].ret.count = 3

\* in the messages msgs, every assistant message with k tool calls is followed
\* at once by the tool messages of its own calls 1..k, as far as msgs goes;
\* with `whole`, all k of them are there
ResultsFollowCalls(msgs, whole) ==
  \A p \in 1..Len(msgs) :
    msgs[p].Role = "assistant" =>
      /\ whole => p + Len(msgs[p].ToolCalls) <= Len(msgs)
      /\ \A j \in 1..Len(msgs[p].ToolCalls) :
           p + j <= Len(msgs) =>
             /\ msgs[p + j].Role = "tool"
             /\ msgs[p + j].tag = <<msgs[p].tag[1], msgs[p].tag[2], j>>

(* C38: when two Chat requests for the same conversation id run concurrently *)
(* the history keeps the causal order of the turns: every assistant message  *)
(* with k tool calls is followed at once by its own k tool results, with no  *)
(* message of the other request in between, and no model call is sent a      *)
(* history in which a tool call has no result yet.                           *)
C38_TurnsNotInterleaved ==
  /\ \A c \in 1..Len(heap) : ResultsFollowCalls(heap[c].messages, FALSE)
  /\ \A r \in ModelCalled : ResultsFollowCalls(chat[r].sent.Messages, TRUE)

\* what the code does keep: among the messages of one request alone, the
\* results follow their calls, in the history and in what is sent
C38_OwnTurnsInOrder ==
  \A r \in Requests :
    /\ ResultsFollowCalls(SelectSeq(History(r), LAMBDA m : m.tag[1] = r), FALSE)
    /\ \A q \in ModelCalled :
         ResultsFollowCalls(SelectSeq(chat[q].sent.Messages, LAMBDA m : m.tag[1] = r), q = r)

\* the add calls that return an error in this step
AddFails(g) ==
  /\ procs[g].op \in {"AddDocument", "AddDocumentWithChunks"}
  /\ procs[g].pc = "in"
  /\ procs'[g].pc = "returned"
  /\ procs'[g].ret # "nil"

(* C39: AddDocument and AddDocumentWithChunks are all-or-nothing: when the   *)
(* embedding of a chunk fails the call returns an error and the collection   *)
(* is what it was before the call (the same DocumentCount, the same          *)
(* records), so no chunk of the failed document, or of a file the directory  *)
(* import skipped, is there for a later Search.                              *)
C39_FailedAddLeavesNothing ==
  [][\A g \in Callers :
       AddFails(g) =>
         rag'.documents = SubSeq(rag.documents, 1, procs[g].loc.base)
    ]_vars

\* what the code does: the chunks before the one whose embedding failed stay
C39_FailedAddLeavesEarlierChunks ==
  [][\A g \in Callers :
       AddFails(g) =>
         /\ Len(rag'.documents) = procs[g].loc.base + procs'[g].ret[2]
         /\ IsPrefix(rag.documents, rag'.documents)
    ]_vars

\* the sources Start launched and connected
Connected == { n \in DOMAIN processes : processes[n].Session # "none" }

(* C40: every session and subprocess that Start launched and connected is    *)
(* closed and killed by the time Stop returns, whatever the configuration    *)
(* list, also when two enabled sources have the same name; no launched       *)
(* subprocess is ever running without an owner.                              *)
C40_StopClosesAndKillsAll ==
  /\ stop.pc = "returned" =>
       \A n \in Connected : processes[n].Session = "closed" /\ processes[n].Cmd = "killed"
  /\ \A n \in Connected :
       processes[n].Cmd = "running" =>
         \E name \in DOMAIN clients : clients[name].Pid = n

\* what the code does keep: it holds when no two enabled sources that
\* connected share a name
C40_StopClosesAndKillsDistinctNames ==
  (\A m, n \in Connected : m # n => processes[m].Name # processes[n].Name)
    => C40_StopClosesAndKillsAll

====
